---- MODULE Spec2Model ----
(***************************************************************************)
(* HP_SBWT_Compression: the per-block pipeline (SBWT, MTF, RLE, back-end   *)
(* coder) and the block-parallel drivers compress_file / decompress_file.  *)
(*                                                                         *)
(* Byte strings and symbol lists are sequences of integers 0..255.  A      *)
(* Python call that may raise is an operator returning a result record     *)
(* [ok, val, err]: ok = FALSE stands for the raised exception.             *)
(***************************************************************************)
EXTENDS Integers, Sequences, FiniteSets, TLC

VARIABLES
    fn_pc,      \* position of the component harness: "start", "encoded", "decoded"
    fn_in,      \* the input handed to the encoder under test
    fn_key,     \* the further arguments: the key of sbwt_*, the code sizes of lzw_*
    fn_enc,     \* what the encoder returned
    fn_dec,     \* what the decoder returned (a result record)
    sha256_order, \* for each master key, the bytes in the order of their SHA-256 digests
    in_file,    \* compress_file: the bytes of the input file
    c_mode,     \* compress_file: mode
    c_key,      \* compress_file: key (the master key)
    c_pc,       \* compress_file: "idle", "collect", "write", "done", "failed"
    c_blocks,   \* compress_file: blocks, the argument tuples of the workers
    c_futures,  \* compress_file: the block indices whose future as_completed has not yielded
    compressed_blocks,  \* compress_file: block index -> record
    c_error,    \* compress_file: the RuntimeError raised
    bin_file,   \* the output file of compress_file: whether it exists, and its frames
    container,  \* the input file of decompress_file: its frames
    d_key,      \* decompress_file: key
    d_pc,       \* decompress_file: "idle", "collect", "done", "failed"
    d_blocks,   \* decompress_file: blocks, the argument tuples of the workers
    d_futures,  \* decompress_file: the positions in blocks whose future is not yet yielded
    decompressed_blocks, \* decompress_file: block number -> bytes
    d_extension, \* decompress_file: <<extension>>, <<>> while it is unbound
    d_error,    \* decompress_file: the exception raised
    out_file    \* the output file of decompress_file: exists, extension, the chunks written

fn_vars == <<fn_pc, fn_in, fn_key, fn_enc, fn_dec>>

c_vars == <<in_file, c_mode, c_key, c_pc, c_blocks, c_futures, compressed_blocks, c_error,
            bin_file>>

d_vars == <<container, d_key, d_pc, d_blocks, d_futures, decompressed_blocks, d_extension,
            d_error, out_file>>

vars == <<fn_vars, sha256_order, c_vars, d_vars>>

----------------------------------------------------------------------------
(* Python values and exceptions *)

Ok(v) == [ok |-> TRUE, val |-> v, err |-> ""]

Raise(e) == [ok |-> FALSE, val |-> <<>>, err |-> e]

NoResult == [ok |-> FALSE, val |-> <<>>, err |-> "not run"]

\* [v] * n
Repeat(v, n) == [i \in 1..n |-> v]

\* the set of sequences over S of length 0..n
SeqsUpTo(S, n) == UNION {[1..k -> S] : k \in 0..n}

\* for i in range(lo, hi): st = Step(st, i).  The range is split in halves and the
\* left half is computed first (the comparison forces it), so that the evaluation
\* depth is logarithmic in the length of the range.
RECURSIVE ForRange(_, _, _, _)
ForRange(Step(_, _), st, lo, hi) ==
    IF lo >= hi THEN st
    ELSE IF hi = lo + 1 THEN Step(st, lo)
    ELSE LET mid == (lo + hi) \div 2
             left == ForRange(Step, st, lo, mid)
         IN  IF left = left THEN ForRange(Step, left, mid, hi) ELSE st

RECURSIVE Flatten(_)
Flatten(ss) == IF ss = <<>> THEN <<>> ELSE Head(ss) \o Flatten(Tail(ss))

----------------------------------------------------------------------------
(* utils/algorithms/rle.py *)

ESC == 255

\* the while loop of flush_run splitting a run of exactly 255 as well
RECURSIVE flush_run_segments_from_255(_, _, _)
flush_run_segments_from_255(encoded, symbol, run_length) ==
    IF run_length >= 255
    THEN flush_run_segments_from_255(encoded \o <<255, 255, symbol>>, symbol, run_length - 255)
    ELSE encoded \o <<255, run_length, symbol>>

\* the while loop of flush_run and the write of the last segment
RECURSIVE flush_run_segments(_, _, _)
flush_run_segments(encoded, symbol, run_length) ==
    IF run_length > 255
    THEN flush_run_segments(encoded \o <<255, 255, symbol>>, symbol, run_length - 255)
    ELSE encoded \o <<255, run_length, symbol>>

\* flush_run without the escape of a single 0xFF (the mutant of C8)
flush_run_noescape(encoded, symbol, run_length) ==
    IF run_length = 1
    THEN Append(encoded, symbol)
    ELSE flush_run_segments(encoded, symbol, run_length)

flush_run(encoded, symbol, run_length) ==
    IF run_length = 1
    THEN IF symbol = 255
         THEN encoded \o <<255, 0>>
         ELSE Append(encoded, symbol)
    ELSE flush_run_segments(encoded, symbol, run_length)

\* one iteration of the for loop of rle_encode; st is the loop's state
rle_encode_step(st, next_symbol) ==
    IF next_symbol = st.current_symbol
    THEN [st EXCEPT !.run_length = @ + 1]
    ELSE [encoded |-> flush_run(st.encoded, st.current_symbol, st.run_length),
          current_symbol |-> next_symbol,
          run_length |-> 1]

rle_encode(data) ==
    IF data = <<>> THEN <<>>
    ELSE LET Step(st, i) == rle_encode_step(st, data[i])
             st == ForRange(Step,
                            [encoded |-> <<>>, current_symbol |-> data[1], run_length |-> 1],
                            2, Len(data) + 1)
         IN  flush_run(st.encoded, st.current_symbol, st.run_length)

\* the while loop of rle_decode: index is 1-based here, 0-based in the source
RECURSIVE rle_decode_loop(_, _, _)
rle_decode_loop(data, index, decoded) ==
    IF index > Len(data) THEN Ok(decoded)
    ELSE IF data[index] # 255
    THEN rle_decode_loop(data, index + 1, Append(decoded, data[index]))
    ELSE IF index + 1 > Len(data)
    THEN rle_decode_loop(data, index + 1, Append(decoded, 255))
    ELSE IF data[index + 1] = 0
    THEN rle_decode_loop(data, index + 2, Append(decoded, 255))
    ELSE IF index + 2 > Len(data)
    THEN Raise("ValueError")
    ELSE rle_decode_loop(data, index + 3,
                         decoded \o Repeat(data[index + 2], data[index + 1]))

rle_decode(data) == rle_decode_loop(data, 1, <<>>)

----------------------------------------------------------------------------
(* utils/algorithms/mtf.py *)

\* sorted(set(data), reverse=True)
RECURSIVE SortedSeq_descending(_)
SortedSeq_descending(S) ==
    IF S = {} THEN <<>>
    ELSE LET m == CHOOSE a \in S : \A b \in S : a >= b
         IN  <<m>> \o SortedSeq_descending(S \ {m})

\* sorted(set(data)) for a set of integers
RECURSIVE SortedSeq(_)
SortedSeq(S) ==
    IF S = {} THEN <<>>
    ELSE LET m == CHOOSE a \in S : \A b \in S : a <= b
         IN  <<m>> \o SortedSeq(S \ {m})

Range(s) == {s[i] : i \in 1..Len(s)}

\* the 0-based position of char in lst (mtf_dict[char])
IndexOf(lst, char) == (CHOOSE i \in 1..Len(lst) : lst[i] = char) - 1

\* lst.pop(index); lst.insert(0, char), index 0-based
MoveToFront(lst, index) ==
    <<lst[index + 1]>> \o SubSeq(lst, 1, index) \o SubSeq(lst, index + 2, Len(lst))

\* "".join(items): every item has to be a str.  The lists of this pipeline hold the
\* int items got by iterating over bytes, for which join raises TypeError; the
\* join of no item at all is the empty str.
str_join(items) ==
    IF items = <<>> THEN Ok(<<>>) ELSE Raise("TypeError")

\* one iteration of the for loop of mft_encode
mft_encode_step(st, char) ==
    LET index == IndexOf(st.mtf_list, char)
    IN  [encoded |-> Append(st.encoded, index),
         mtf_list |-> MoveToFront(st.mtf_list, index)]

mft_encode(data) ==
    LET symbols == SortedSeq(Range(data))
        Step(st, i) == mft_encode_step(st, data[i])
        st == ForRange(Step, [encoded |-> <<>>, mtf_list |-> symbols], 1, Len(data) + 1)
    IN  [encoded |-> st.encoded, symbols |-> symbols]

\* the for loop of mft_decode, which ends at the first invalid index
RECURSIVE mft_decode_loop(_, _, _, _)
mft_decode_loop(encoded, i, mtf_list, decoded) ==
    IF i > Len(encoded) THEN Ok(decoded)
    ELSE IF encoded[i] < 0 \/ encoded[i] >= Len(mtf_list)
    THEN Raise("ValueError")
    ELSE mft_decode_loop(encoded, i + 1, MoveToFront(mtf_list, encoded[i]),
                         Append(decoded, mtf_list[encoded[i] + 1]))

mft_decode(encoded, symbols) ==
    LET r == mft_decode_loop(encoded, 1, symbols, <<>>)
    IN  IF r.ok THEN str_join(r.val) ELSE r

----------------------------------------------------------------------------
(* utils/algorithms/sbwt.py *)

EOF == 255

\* the master keys and the bytes of the modelled inputs
Keys == {"keyA", "keyB"}

Bytes == {97, 98, 255}

\* the permutations of a set, as sequences
Perms(S) == {p \in [1..Cardinality(S) -> S] : Range(p) = S}

\* SHA-256 is not computed: a digest matters only through the order in which the
\* digests of key + c sort, which is some total order of the bytes c, fixed for a
\* key.  sha256_order[k] is that order for the sub-key of block 0 of master key k;
\* the sub-key of block b sorts the bytes in the order rotated by b places.
NoHashes == [k \in Keys |-> <<>>]

\* key_derivation(key, block_number): the digest of "key-block_number", kept as the
\* pair it is computed from
key_derivation(key, block_number) == <<key, block_number>>

RotateLeft(p, b) ==
    IF p = <<>> THEN p
    ELSE [i \in 1..Len(p) |-> p[((i - 1 + b) % Len(p)) + 1]]

\* the bytes in ascending order of sha256(key_bytes + c)
DigestOrder(subkey) == RotateLeft(sha256_order[subkey[1]], subkey[2])

PosIn(p, c) == CHOOSE i \in 1..Len(p) : p[i] = c

\* generate_order_from_key without the sort by digest: the bytes are ranked in
\* the order in which data holds them first
generate_order_from_key_unsorted(data, key) ==
    LET first(c) == CHOOSE i \in 1..Len(data) : data[i] = c /\ \A j \in 1..(i - 1) : data[j] # c
    IN  [c \in Range(data) |-> Cardinality({d \in Range(data) : first(d) < first(c)})]

\* generate_order_from_key: the rank of every distinct byte of data in the order
\* of the digests
generate_order_from_key(data, key) ==
    LET unique_chars == Range(data)
        p == DigestOrder(key)
    IN  [c \in unique_chars |->
            Cardinality({d \in unique_chars : PosIn(p, d) < PosIn(p, c)})]

\* tuple comparison of Python for pairs
PairLess(a, b) == a[1] < b[1] \/ (a[1] = b[1] /\ a[2] < b[2])

\* list.sort(key=...) is stable: an element goes after every element whose key is
\* not greater
RECURSIVE InsertByKey(_, _, _)
InsertByKey(Key(_), sorted, e) ==
    IF sorted = <<>> THEN <<e>>
    ELSE IF PairLess(Key(e), Key(Head(sorted)))
         THEN <<e>> \o sorted
         ELSE <<Head(sorted)>> \o InsertByKey(Key, Tail(sorted), e)

RECURSIVE StableSortByKey(_, _)
StableSortByKey(Key(_), lst) ==
    IF lst = <<>> THEN <<>>
    ELSE InsertByKey(Key, StableSortByKey(Key, SubSeq(lst, 1, Len(lst) - 1)), lst[Len(lst)])

\* the sorting key of suffix i (0-based) at a step of build_suffix_array
RankPair(suffix_ranks, step_size, i) ==
    <<suffix_ranks[i + 1],
      IF i + step_size < Len(suffix_ranks) THEN suffix_ranks[i + step_size + 1] ELSE -1>>

\* the for loop that updates the ranks: position i (0-based, from 1) of suffix_array
RECURSIVE UpdateRanks(_, _, _, _, _, _)
UpdateRanks(suffix_array, suffix_ranks, step_size, i, new_rank, temp_ranks) ==
    IF i >= Len(suffix_array) THEN temp_ranks
    ELSE LET prev == suffix_array[i]
             curr == suffix_array[i + 1]
             r == IF RankPair(suffix_ranks, step_size, prev)
                        # RankPair(suffix_ranks, step_size, curr)
                  THEN new_rank + 1 ELSE new_rank
         IN  UpdateRanks(suffix_array, suffix_ranks, step_size, i + 1, r,
                         [temp_ranks EXCEPT ![curr + 1] = r])

\* the while loop of build_suffix_array
RECURSIVE RefineSuffixArray(_, _, _)
RefineSuffixArray(suffix_array, suffix_ranks, step_size) ==
    IF step_size >= Len(suffix_array) THEN suffix_array
    ELSE LET Key(i) == RankPair(suffix_ranks, step_size, i)
             sorted == StableSortByKey(Key, suffix_array)
             temp_ranks == UpdateRanks(sorted, suffix_ranks, step_size, 1, 0,
                                       <<>> \o [i \in 1..Len(sorted) |-> 0])
         IN  RefineSuffixArray(sorted, temp_ranks, 2 * step_size)

\* build_suffix_array: suffix indices are 0-based as in the source
build_suffix_array(custom_order, data) ==
    LET length == Len(data)
        suffix_ranks == [i \in 1..length |-> custom_order[data[i]]]
        suffix_array == [i \in 1..length |-> i - 1]
    IN  RefineSuffixArray(suffix_array, suffix_ranks, 1)

\* data.endswith(EOF)
EndsWithEOF(data) == data # <<>> /\ data[Len(data)] = EOF

\* sbwt_encode appending a terminator to every input
Terminated_always(data) == Append(data, EOF)

\* the data sbwt_encode sorts: a terminator is appended unless data ends with one
Terminated(data) == IF EndsWithEOF(data) THEN data ELSE Append(data, EOF)

sbwt_encode(data0, key) ==
    LET data == Terminated(data0)
        custom_order == generate_order_from_key(data, key)
        suffix_array == build_suffix_array(custom_order, data)
        n == Len(suffix_array)
        last_column == [j \in 1..n |-> data[((suffix_array[j] - 1) % n) + 1]]
        orig_ptr == (CHOOSE j \in 1..n : suffix_array[j] = 0) - 1
    IN  [last_column |-> last_column, orig_ptr |-> orig_ptr]

\* cumulative_count[char]: the number of bytes of last_column that sort before char
cumulative_count(last_column, custom_order, char) ==
    Cardinality({i \in 1..Len(last_column) :
                    custom_order[last_column[i]] < custom_order[char]})

\* the array t of sbwt_decode, 0-based values at 1-based positions
lf_map(last_column, custom_order) ==
    LET n == Len(last_column)
        next_pos(idx) == Cardinality({j \in 1..(idx - 1) : last_column[j] = last_column[idx]})
        t_idx(idx) == cumulative_count(last_column, custom_order, last_column[idx])
                          + next_pos(idx)
    IN  [k \in 1..n |-> (CHOOSE idx \in 1..n : t_idx(idx) = k - 1) - 1]

\* the reconstruction loop of sbwt_decode: steps more iterations from row idx.
\* t[idx] with idx >= n raises IndexError; a negative idx counts from the end.
RECURSIVE sbwt_walk(_, _, _, _, _)
sbwt_walk(last_column, t, idx, steps, decoded) ==
    IF steps <= 0 THEN Ok(decoded)
    ELSE IF idx >= Len(t) \/ idx < -Len(t) THEN Raise("IndexError")
    ELSE LET nxt == t[(idx % Len(t)) + 1]
         IN  sbwt_walk(last_column, t, nxt, steps - 1,
                       Append(decoded, last_column[nxt + 1]))

sbwt_decode(last_column, orig_ptr, key) ==
    LET n == Len(last_column)
        custom_order == generate_order_from_key(last_column, key)
        t == lf_map(last_column, custom_order)
        r == sbwt_walk(last_column, t, orig_ptr, n - 1, <<>>)
    IN  IF ~r.ok THEN r
        ELSE IF EndsWithEOF(r.val)
             THEN Ok(SubSeq(r.val, 1, Len(r.val) - 1))
             ELSE r

----------------------------------------------------------------------------
(* utils/algorithms/huffman.py *)

\* HuffmanNode: symbol is -1 (None) in a merged node, whose kids are <<left, right>>
HuffmanNode(symbol, freq) == [symbol |-> symbol, freq |-> freq, kids |-> <<>>]

MergedNode(left, right) ==
    [symbol |-> -1, freq |-> left.freq + right.freq, kids |-> <<left, right>>]

\* HuffmanNode.__lt__
NodeLess(a, b) == a.freq < b.freq

\* heapq._siftdown(heap, startpos, pos), positions 0-based
RECURSIVE siftdown_loop(_, _, _, _)
siftdown_loop(heap, startpos, pos, newitem) ==
    IF pos > startpos
    THEN LET parentpos == (pos - 1) \div 2
             parent == heap[parentpos + 1]
         IN  IF NodeLess(newitem, parent)
             THEN siftdown_loop([heap EXCEPT ![pos + 1] = parent], startpos, parentpos, newitem)
             ELSE [heap EXCEPT ![pos + 1] = newitem]
    ELSE [heap EXCEPT ![pos + 1] = newitem]

heap_siftdown(heap, startpos, pos) == siftdown_loop(heap, startpos, pos, heap[pos + 1])

\* heapq._siftup(heap, pos): the smaller child bubbles up until a leaf is hit, then
\* newitem is sifted down from there
RECURSIVE siftup_loop(_, _, _, _)
siftup_loop(heap, startpos, pos, newitem) ==
    LET endpos == Len(heap)
        childpos == 2 * pos + 1
        rightpos == childpos + 1
        c == IF rightpos < endpos /\ ~NodeLess(heap[childpos + 1], heap[rightpos + 1])
             THEN rightpos ELSE childpos
    IN  IF childpos < endpos
        THEN siftup_loop([heap EXCEPT ![pos + 1] = heap[c + 1]], startpos, c, newitem)
        ELSE heap_siftdown([heap EXCEPT ![pos + 1] = newitem], startpos, pos)

heap_siftup(heap, pos) == siftup_loop(heap, pos, pos, heap[pos + 1])

\* heapq.heapify: for i in reversed(range(n // 2)): _siftup(x, i)
RECURSIVE heapify_from(_, _)
heapify_from(heap, i) ==
    IF i < 0 THEN heap ELSE heapify_from(heap_siftup(heap, i), i - 1)

heapify(heap) == heapify_from(heap, (Len(heap) \div 2) - 1)

\* heapq.heappop: the popped item and the heap left
heappop(heap) ==
    LET lastelt == heap[Len(heap)]
        rest == SubSeq(heap, 1, Len(heap) - 1)
    IN  IF rest # <<>>
        THEN [item |-> rest[1], heap |-> heap_siftup([rest EXCEPT ![1] = lastelt], 0)]
        ELSE [item |-> lastelt, heap |-> rest]

\* heapq.heappush
heappush(heap, item) == heap_siftdown(Append(heap, item), 0, Len(heap))

\* Counter(data).items(): the distinct symbols in the order of their first
\* appearance, each with the number of its occurrences
Counter(data) ==
    LET firsts == {i \in 1..Len(data) : \A j \in 1..(i - 1) : data[j] # data[i]}
        pos == SortedSeq(firsts)
    IN  [k \in 1..Len(pos) |->
            <<data[pos[k]], Cardinality({j \in 1..Len(data) : data[j] = data[pos[k]]})>>]

\* the while loop of build_huffman_tree
RECURSIVE merge_loop(_)
merge_loop(heap) ==
    IF Len(heap) > 1
    THEN LET p1 == heappop(heap)
             p2 == heappop(p1.heap)
         IN  merge_loop(heappush(p2.heap, MergedNode(p1.item, p2.item)))
    ELSE heap

\* build_huffman_tree: heap[0] of an empty heap raises IndexError
build_huffman_tree(data) ==
    LET frequency == Counter(data)
        heap == <<>> \o [k \in 1..Len(frequency) |->
                            HuffmanNode(frequency[k][1], frequency[k][2])]
        final == merge_loop(heapify(heap))
    IN  IF final = <<>> THEN Raise("IndexError") ELSE Ok(<<final[1]>>)

\* build_huffman_codes: the stack holds <<node, current_code>> pairs, its top last;
\* codes is the set of <<symbol, code>> pairs of the dict
RECURSIVE codes_loop(_, _)
codes_loop(stack, codes) ==
    IF stack = <<>> THEN codes
    ELSE LET node == stack[Len(stack)][1]
             current_code == stack[Len(stack)][2]
             rest == SubSeq(stack, 1, Len(stack) - 1)
         IN  IF node.symbol # -1
             THEN codes_loop(rest, codes \cup {<<node.symbol, current_code>>})
             ELSE codes_loop(rest \o << <<node.kids[2], Append(current_code, 1)>>,
                                       <<node.kids[1], Append(current_code, 0)>> >>,
                             codes)

build_huffman_codes(root) ==
    LET pairs == codes_loop(<< <<root, <<>> >> >>, {})
    IN  [sym \in {pr[1] : pr \in pairs} |-> (CHOOSE pr \in pairs : pr[1] = sym)[2]]

\* a padding that fills a whole byte when the bits already end on a byte
padding_to_add_whole_byte(bits) == 8 - (Len(bits) % 8)

\* apply_padding(bits, mode='add'): the number of '0' bits appended
padding_to_add(bits) == (8 - (Len(bits) % 8)) % 8

\* apply_padding(bits, padding_length, mode='remove'): bits[:-padding_length]
remove_padding(bits, padding_length) ==
    IF padding_length # 0
    THEN SubSeq(bits, 1, Len(bits) - padding_length)
    ELSE bits

\* int(bits, 2) for a list of 8 bits
BitsToByte(b) ==
    128 * b[1] + 64 * b[2] + 32 * b[3] + 16 * b[4] + 8 * b[5] + 4 * b[6] + 2 * b[7] + b[8]

\* f'{byte:08b}'
ByteToBits(byte) ==
    <<(byte \div 128) % 2, (byte \div 64) % 2, (byte \div 32) % 2, (byte \div 16) % 2,
      (byte \div 8) % 2, (byte \div 4) % 2, (byte \div 2) % 2, byte % 2>>

huffman_encode(data) ==
    LET root == build_huffman_tree(data)
    IN  IF ~root.ok THEN root
        ELSE LET huffman_codes == build_huffman_codes(root.val[1])
                 encoded_bits == Flatten([i \in 1..Len(data) |-> huffman_codes[data[i]]])
                 padding_length == padding_to_add(encoded_bits)
                 padded_bits == encoded_bits \o Repeat(0, padding_length)
                 byte_array == [k \in 1..(Len(padded_bits) \div 8) |->
                                   BitsToByte(SubSeq(padded_bits, 8 * k - 7, 8 * k))]
             IN  Ok([data |-> byte_array,
                     huffman_codes |-> huffman_codes,
                     padding_length |-> padding_length])

\* the for loop of huffman_decode over the bits from position i
RECURSIVE huffman_decode_loop(_, _, _, _, _)
huffman_decode_loop(bits, i, huffman_codes, current_code, decoded) ==
    IF i > Len(bits) THEN decoded
    ELSE LET code == Append(current_code, bits[i])
             hits == {sym \in DOMAIN huffman_codes : huffman_codes[sym] = code}
         IN  IF hits # {}
             THEN huffman_decode_loop(bits, i + 1, huffman_codes, <<>>,
                                      Append(decoded, CHOOSE sym \in hits : TRUE))
             ELSE huffman_decode_loop(bits, i + 1, huffman_codes, code, decoded)

huffman_decode(encoded_bytes, huffman_codes, padding_length) ==
    LET encoded_bits == Flatten([i \in 1..Len(encoded_bytes) |-> ByteToBits(encoded_bytes[i])])
        bits == remove_padding(encoded_bits, padding_length)
    IN  Ok(huffman_decode_loop(bits, 1, huffman_codes, <<>>, <<>>))

----------------------------------------------------------------------------
(* utils/algorithms/lzw.py *)

\* 1 << n
Pow2(n) == 2 ^ n

\* The dictionary holds the 256 single-byte strings under their own value and the
\* added strings, in the order of their addition, under the codes 256, 257, ...:
\* it is modelled by the list of the added strings.
lzw_contains(added, sequence) ==
    Len(sequence) = 1 \/ \E i \in 1..Len(added) : added[i] = sequence

lzw_code_of(added, sequence) ==
    IF Len(sequence) = 1 THEN sequence[1]
    ELSE 255 + (CHOOSE i \in 1..Len(added) : added[i] = sequence)

\* one iteration of the for loop of lzw_encode
lzw_encode_step(st, symbol, initial_code_size, max_code_size) ==
    LET combined_sequence == Append(st.current_sequence, symbol)
    IN  IF lzw_contains(st.added, combined_sequence)
        THEN [st EXCEPT !.current_sequence = combined_sequence]
        ELSE LET out == Append(st.encoded_output,
                               lzw_code_of(st.added, st.current_sequence))
             IN  IF st.dictionary_size < Pow2(max_code_size)
                 THEN LET size == st.dictionary_size + 1
                          widen == size = st.max_dictionary_size
                                       /\ st.current_code_size < max_code_size
                      IN  [added |-> Append(st.added, combined_sequence),
                           dictionary_size |-> size,
                           current_code_size |->
                               IF widen THEN st.current_code_size + 1
                               ELSE st.current_code_size,
                           max_dictionary_size |->
                               IF widen THEN Pow2(st.current_code_size + 1)
                               ELSE st.max_dictionary_size,
                           current_sequence |-> <<symbol>>,
                           encoded_output |-> out]
                 ELSE [added |-> <<>>,
                       dictionary_size |-> 256,
                       current_code_size |-> initial_code_size,
                       max_dictionary_size |-> Pow2(initial_code_size),
                       current_sequence |-> <<symbol>>,
                       encoded_output |-> out]

lzw_encode(data, initial_code_size, max_code_size) ==
    LET Step(st, i) == lzw_encode_step(st, data[i], initial_code_size, max_code_size)
        st == ForRange(Step,
                       [added |-> <<>>,
                        dictionary_size |-> 256,
                        current_code_size |-> initial_code_size,
                        max_dictionary_size |-> Pow2(initial_code_size),
                        current_sequence |-> <<>>,
                        encoded_output |-> <<>>],
                       1, Len(data) + 1)
    IN  IF st.current_sequence # <<>>
        THEN Append(st.encoded_output, lzw_code_of(st.added, st.current_sequence))
        ELSE st.encoded_output

\* code in dictionary, for the decoder's dictionary of codes
lzw_has_code(added, code) == code >= 0 /\ code < 256 + Len(added)

lzw_string_of(added, code) == IF code < 256 THEN <<code>> ELSE added[code - 255]

\* a decoder step that knows only the codes its dictionary holds
lzw_decode_step_known_codes(st, code, initial_code_size, max_code_size) ==
    IF st.err # "" THEN st
    ELSE IF ~lzw_has_code(st.added, code)
    THEN [st EXCEPT !.err = "ValueError"]
    ELSE LET current_sequence == lzw_string_of(st.added, code)
         IN  [st EXCEPT !.added = Append(@, Append(st.previous_sequence, current_sequence[1])),
                        !.dictionary_size = @ + 1,
                        !.previous_sequence = current_sequence,
                        !.decoded_bytes = @ \o current_sequence]

\* one iteration of the for loop of lzw_decode; err is set by the raise
lzw_decode_step(st, code, initial_code_size, max_code_size) ==
    IF st.err # "" THEN st
    ELSE IF ~lzw_has_code(st.added, code) /\ code # st.dictionary_size
    THEN [st EXCEPT !.err = "ValueError"]
    ELSE LET current_sequence ==
                 IF lzw_has_code(st.added, code)
                 THEN lzw_string_of(st.added, code)
                 ELSE Append(st.previous_sequence, st.previous_sequence[1])
             decoded == st.decoded_bytes \o current_sequence
         IN  IF st.dictionary_size < Pow2(max_code_size)
             THEN LET size == st.dictionary_size + 1
                      widen == size = st.max_dictionary_size
                                   /\ st.current_code_size < max_code_size
                  IN  [added |-> Append(st.added,
                                        Append(st.previous_sequence, current_sequence[1])),
                       dictionary_size |-> size,
                       current_code_size |->
                           IF widen THEN st.current_code_size + 1
                           ELSE st.current_code_size,
                       max_dictionary_size |->
                           IF widen THEN Pow2(st.current_code_size + 1)
                           ELSE st.max_dictionary_size,
                       previous_sequence |-> current_sequence,
                       decoded_bytes |-> decoded,
                       err |-> ""]
             ELSE [added |-> <<>>,
                   dictionary_size |-> 256,
                   current_code_size |-> initial_code_size,
                   max_dictionary_size |-> Pow2(initial_code_size),
                   previous_sequence |-> current_sequence,
                   decoded_bytes |-> decoded,
                   err |-> ""]

\* lzw_decode: dictionary[encoded[0]] raises KeyError for a first code over 255
lzw_decode(encoded, initial_code_size, max_code_size) ==
    IF encoded = <<>> THEN Ok(<<>>)
    ELSE IF ~lzw_has_code(<<>>, encoded[1]) THEN Raise("KeyError")
    ELSE LET Step(st, i) == lzw_decode_step(st, encoded[i], initial_code_size, max_code_size)
             st == ForRange(Step,
                            [added |-> <<>>,
                             dictionary_size |-> 256,
                             current_code_size |-> initial_code_size,
                             max_dictionary_size |-> Pow2(initial_code_size),
                             previous_sequence |-> <<encoded[1]>>,
                             decoded_bytes |-> <<encoded[1]>>,
                             err |-> ""],
                            2, Len(encoded) + 1)
         IN  IF st.err # "" THEN Raise(st.err) ELSE Ok(st.decoded_bytes)

\* the default arguments of lzw_encode and lzw_decode
initial_code_size == 9

max_code_size == 16

----------------------------------------------------------------------------
(* utils/algorithms/arithmetic.py *)

(* The coder's state words are 32 bits wide and its products run to 42     *)
(* bits: a wide number is <<d2, d1, d0>>, three digits in base 2^16, most   *)
(* significant first.                                                       *)
Digit == 65536

W(n) == <<0, n \div Digit, n % Digit>>

WNorm(a) ==
    LET s1 == a[2] + (a[3] \div Digit)
    IN  <<a[1] + (s1 \div Digit), s1 % Digit, a[3] % Digit>>

WAdd(a, b) == WNorm(<<a[1] + b[1], a[2] + b[2], a[3] + b[3]>>)

WSub(a, b) == WNorm(<<a[1] - b[1], a[2] - b[2], a[3] - b[3]>>)

\* a * m for a multiplier m < 2^14.
WMul(a, m) == WNorm(<<a[1] * m, a[2] * m, a[3] * m>>)

\* a // m for a divisor m < 2^14.
WDiv(a, m) ==
    LET t1 == (a[1] % m) * Digit + a[2]
        t0 == (t1 % m) * Digit + a[3]
    IN  <<a[1] \div m, t1 \div m, t0 \div m>>

WLess(a, b) ==
    \/ a[1] < b[1]
    \/ a[1] = b[1] /\ a[2] < b[2]
    \/ a[1] = b[1] /\ a[2] = b[2] /\ a[3] < b[3]

\* InputStream: bits are read sequentially, most significant bit first.
InputStream(data) ==
    [input |-> data, byte_index |-> 0, currentbyte |-> 0, numbitsremaining |-> 0]

\* InputStream.read: <<the next bit, or -1 at the end of the data; the stream after>>.
InputStream_read(s) ==
    IF s.numbitsremaining = 0 /\ s.byte_index >= Len(s.input)
    THEN <<-1, s>>
    ELSE LET cur == IF s.numbitsremaining = 0 THEN s.input[s.byte_index + 1]
                    ELSE s.currentbyte
             idx == IF s.numbitsremaining = 0 THEN s.byte_index + 1
                    ELSE s.byte_index
             rem == (IF s.numbitsremaining = 0 THEN 8 ELSE s.numbitsremaining) - 1
         IN  <<(cur \div Pow2(rem)) % 2,
               [input |-> s.input, byte_index |-> idx, currentbyte |-> cur,
                numbitsremaining |-> rem]>>

\* OutputStream: accumulates bits until a full byte is formed.
OutputStream == [buffer |-> <<>>, currentbyte |-> 0, numbitsfilled |-> 0]

OutputStream_write(s, b) ==
    LET cur == s.currentbyte * 2 + b
    IN  IF s.numbitsfilled + 1 = 8
        THEN [buffer |-> Append(s.buffer, cur), currentbyte |-> 0, numbitsfilled |-> 0]
        ELSE [buffer |-> s.buffer, currentbyte |-> cur,
              numbitsfilled |-> s.numbitsfilled + 1]

\* OutputStream.getbytes: the last byte is padded with zero bits.
OutputStream_getbytes(s) ==
    IF s.numbitsfilled > 0
    THEN Append(s.buffer, s.currentbyte * Pow2(8 - s.numbitsfilled))
    ELSE s.buffer

(* utils/algorithms/coders/arithmethic_coder.py is imported by             *)
(* arithmetic.py and is not among the repository's files.  The frequency   *)
(* tables and the coder below are the ones the specification describes: a  *)
(* flat prior of 1 for every symbol of the alphabet, a 32-bit range coder  *)
(* with E1/E2 (shift) and E3 (underflow) renormalisation.                  *)

\* FlatFrequencyTable(num_symbols) copied into a SimpleFrequencyTable: the
\* frequency of symbol s is frequencies[s + 1].
SimpleFrequencyTable(num_symbols) == [s \in 1..num_symbols |-> 1]

\* sum(frequencies[lo - 1 : hi]), by halves
RECURSIVE SumRange(_, _, _)
SumRange(frequencies, lo, hi) ==
    IF lo > hi THEN 0
    ELSE IF lo = hi THEN frequencies[lo]
    ELSE SumRange(frequencies, lo, (lo + hi) \div 2)
             + SumRange(frequencies, (lo + hi) \div 2 + 1, hi)

SumTo(frequencies, n) == SumRange(frequencies, 1, n)

get_total(frequencies) == SumTo(frequencies, Len(frequencies))

get_low(frequencies, symbol) == SumTo(frequencies, symbol)

get_high(frequencies, symbol) == SumTo(frequencies, symbol + 1)

increment(frequencies, symbol) ==
    [frequencies EXCEPT ![symbol + 1] = @ + 1]

num_state_bits == 32

\* state_mask = 2^32 - 1, the initial value of high.
state_mask == <<0, Digit - 1, Digit - 1>>

\* (w & half_range) >> 31 and (w & quarter_range) >> 30 of a state word.
TopBit(w) == w[2] \div 32768

SecondBit(w) == (w[2] \div 16384) % 2

\* (w << 1) & state_mask
ShiftLeft(w) == <<0, (2 * w[2] + (w[3] \div 32768)) % Digit, (2 * w[3]) % Digit>>

\* w ^ half_range
XorHalf(w) == <<0, (w[2] + 32768) % Digit, w[3]>>

\* update's new bounds: low + symlow * range // total and
\* low + symhigh * range // total - 1, with range = high - low + 1.
NewLow(low, high, frequencies, symbol) ==
    WAdd(low, WDiv(WMul(WAdd(WSub(high, low), W(1)), get_low(frequencies, symbol)),
                   get_total(frequencies)))

NewHigh(low, high, frequencies, symbol) ==
    WSub(WAdd(low, WDiv(WMul(WAdd(WSub(high, low), W(1)), get_high(frequencies, symbol)),
                        get_total(frequencies))),
         W(1))

\* ArithmeticEncoder.shift: the top bit of low, then the pending opposite bits.
RECURSIVE WriteBits(_, _, _)
WriteBits(out, b, n) ==
    IF n = 0 THEN out ELSE WriteBits(OutputStream_write(out, b), b, n - 1)

\* The renormalisation loops of update, for the encoder: while low and high
\* agree on the top bit, shift it out (E1/E2); while low = 01... and
\* high = 10..., drop the second bit and count an underflow (E3).
RECURSIVE EncoderRenormalise(_)
EncoderRenormalise(enc) ==
    IF TopBit(enc.low) = TopBit(enc.high)
    THEN LET shifted ==
                 [low |-> ShiftLeft(enc.low),
                  high |-> WAdd(ShiftLeft(enc.high), W(1)),
                  num_underflow |-> 0,
                  output |-> WriteBits(OutputStream_write(enc.output, TopBit(enc.low)),
                                       1 - TopBit(enc.low), enc.num_underflow)]
         IN  IF shifted = shifted THEN EncoderRenormalise(shifted) ELSE enc
    ELSE IF SecondBit(enc.low) = 1 /\ SecondBit(enc.high) = 0
    THEN LET shifted ==
                 [low |-> XorHalf(ShiftLeft(enc.low)),
                  high |-> WAdd(XorHalf(ShiftLeft(XorHalf(enc.high))), W(1)),
                  num_underflow |-> enc.num_underflow + 1,
                  output |-> enc.output]
         IN  IF shifted = shifted THEN EncoderRenormalise(shifted) ELSE enc
    ELSE enc

ArithmeticEncoder(bitout) ==
    [low |-> W(0), high |-> state_mask, num_underflow |-> 0, output |-> bitout]

\* ArithmeticEncoder.write(freqs, symbol)
ArithmeticEncoder_write(enc, frequencies, symbol) ==
    EncoderRenormalise(
        [low |-> NewLow(enc.low, enc.high, frequencies, symbol),
         high |-> NewHigh(enc.low, enc.high, frequencies, symbol),
         num_underflow |-> enc.num_underflow,
         output |-> enc.output])

\* ArithmeticEncoder.finish: one 1 bit ends the code word.
ArithmeticEncoder_finish(enc) == OutputStream_write(enc.output, 1)

\* ArithmeticDecoder.read_code_bit: past the end of the data the bits are 0.
read_code_bit(input) ==
    LET r == InputStream_read(input)
    IN  <<IF r[1] = -1 THEN 0 ELSE r[1], r[2]>>

\* ArithmeticDecoder(32, bitin): the first 32 bits of the stream are the code.
RECURSIVE ReadCode(_, _, _)
ReadCode(code, input, n) ==
    IF n = 0 THEN [code |-> code, input |-> input]
    ELSE LET r == read_code_bit(input)
             shifted == WAdd(ShiftLeft(code), W(r[1]))
         IN  IF <<shifted, r>> = <<shifted, r>>
             THEN ReadCode(shifted, r[2], n - 1)
             ELSE [code |-> code, input |-> input]

ArithmeticDecoder(bitin) ==
    LET c == ReadCode(W(0), bitin, num_state_bits)
    IN  [low |-> W(0), high |-> state_mask, code |-> c.code, input |-> c.input]

\* The renormalisation loops of update, for the decoder: the code word is
\* shifted with the bounds, taking its new low bit from the stream.
RECURSIVE DecoderRenormalise(_)
DecoderRenormalise(dec) ==
    IF TopBit(dec.low) = TopBit(dec.high)
    THEN LET r == read_code_bit(dec.input)
             shifted == [low |-> ShiftLeft(dec.low),
                         high |-> WAdd(ShiftLeft(dec.high), W(1)),
                         code |-> WAdd(ShiftLeft(dec.code), W(r[1])),
                         input |-> r[2]]
         IN  IF shifted = shifted THEN DecoderRenormalise(shifted) ELSE dec
    ELSE IF SecondBit(dec.low) = 1 /\ SecondBit(dec.high) = 0
    THEN LET r == read_code_bit(dec.input)
             c == ShiftLeft(dec.code)
             shifted == [low |-> XorHalf(ShiftLeft(dec.low)),
                         high |-> WAdd(XorHalf(ShiftLeft(XorHalf(dec.high))), W(1)),
                         code |-> <<0, TopBit(dec.code) * 32768 + (c[2] % 32768),
                                    c[3] + r[1]>>,
                         input |-> r[2]]
         IN  IF shifted = shifted THEN DecoderRenormalise(shifted) ELSE dec
    ELSE dec

\* get_low(middle) > value, where value = ((code - low + 1) * total - 1) // range:
\* the same as get_low(middle) * range > (code - low + 1) * total - 1.
AboveValue(dec, frequencies, middle) ==
    WLess(WSub(WMul(WAdd(WSub(dec.code, dec.low), W(1)), get_total(frequencies)), W(1)),
          WMul(WAdd(WSub(dec.high, dec.low), W(1)), get_low(frequencies, middle)))

\* The binary search of ArithmeticDecoder.read for the symbol whose
\* cumulative interval holds value.
RECURSIVE FindSymbol(_, _, _, _)
FindSymbol(dec, frequencies, start, end) ==
    IF end - start <= 1 THEN start
    ELSE LET middle == (start + end) \div 2
         IN  IF AboveValue(dec, frequencies, middle)
             THEN FindSymbol(dec, frequencies, start, middle)
             ELSE FindSymbol(dec, frequencies, middle, end)

\* ArithmeticDecoder.read(freqs): <<the symbol, the decoder after update>>.
ArithmeticDecoder_read(dec, frequencies) ==
    LET symbol == FindSymbol(dec, frequencies, 0, Len(frequencies))
    IN  <<symbol,
          DecoderRenormalise(
              [low |-> NewLow(dec.low, dec.high, frequencies, symbol),
               high |-> NewHigh(dec.low, dec.high, frequencies, symbol),
               code |-> dec.code,
               input |-> dec.input])>>

Max(data) == CHOOSE m \in Range(data) : \A v \in Range(data) : v <= m

\* a header that holds one less than the number it is given
pack_I_less_one(n) ==
    <<((n - 1) \div 16777216) % 256, ((n - 1) \div 65536) % 256,
      ((n - 1) \div 256) % 256, (n - 1) % 256>>

\* struct.pack("!I", n) and struct.unpack("!I", b)[0]
pack_I(n) ==
    <<(n \div 16777216) % 256, (n \div 65536) % 256, (n \div 256) % 256, n % 256>>

unpack_I(b) == ((b[1] * 256 + b[2]) * 256 + b[3]) * 256 + b[4]

\* the EOF symbol of an alphabet of num_symbols symbols: num_symbols - 1
eof_symbol(num_symbols) == num_symbols - 1

\* One pass of the loop of arithmetic_encode: write the symbol, then count it.
arithmetic_encode_step(st, symbol) ==
    [enc |-> ArithmeticEncoder_write(st.enc, st.freqs, symbol),
     freqs |-> increment(st.freqs, symbol)]

arithmetic_encode_loop(st, data) ==
    ForRange(LAMBDA s, i : arithmetic_encode_step(s, data[i]), st, 1, Len(data) + 1)

\* arithmetic_encode(data): max() of an empty list raises ValueError.
arithmetic_encode(data) ==
    IF data = <<>> THEN Raise("ValueError")
    ELSE LET num_symbols == Max(data) + 2
             st == arithmetic_encode_loop(
                       [enc |-> ArithmeticEncoder(OutputStream),
                        freqs |-> SimpleFrequencyTable(num_symbols)], data)
             compressed_data == OutputStream_getbytes(
                 ArithmeticEncoder_finish(
                     ArithmeticEncoder_write(st.enc, st.freqs, eof_symbol(num_symbols))))
         IN  Ok(pack_I(num_symbols) \o compressed_data)

\* The loop of arithmetic_decode that keeps the frequency table as it was:
\* it does not count the symbols it decodes.
RECURSIVE arithmetic_decode_loop_static(_, _, _, _)
arithmetic_decode_loop_static(dec, freqs, num_symbols, decoded_data) ==
    LET r == ArithmeticDecoder_read(dec, freqs)
        counted == freqs
    IN  IF r[1] = eof_symbol(num_symbols) THEN decoded_data
        ELSE IF <<r, counted>> = <<r, counted>>
        THEN arithmetic_decode_loop_static(r[2], counted, num_symbols, Append(decoded_data, r[1]))
        ELSE decoded_data

\* The loop of arithmetic_decode: read a symbol, stop at the EOF symbol,
\* otherwise emit it and count it.
RECURSIVE arithmetic_decode_loop(_, _, _, _)
arithmetic_decode_loop(dec, freqs, num_symbols, decoded_data) ==
    LET r == ArithmeticDecoder_read(dec, freqs)
        counted == increment(freqs, r[1])
    IN  IF r[1] = eof_symbol(num_symbols) THEN decoded_data
        ELSE IF <<r, counted>> = <<r, counted>>
        THEN arithmetic_decode_loop(r[2], counted, num_symbols, Append(decoded_data, r[1]))
        ELSE decoded_data

\* arithmetic_decode(encoded_data_bytes)
arithmetic_decode(encoded_data_bytes) ==
    IF Len(encoded_data_bytes) < 4 THEN Raise("ValueError")
    ELSE LET num_symbols == unpack_I(encoded_data_bytes)
             compressed_data == SubSeq(encoded_data_bytes, 5, Len(encoded_data_bytes))
         IN  IF num_symbols < 1 THEN Raise("ValueError")
             ELSE Ok(arithmetic_decode_loop(ArithmeticDecoder(InputStream(compressed_data)),
                                            SimpleFrequencyTable(num_symbols),
                                            num_symbols, <<>>))

----------------------------------------------------------------------------
(* File contents *)

\* The bytes of a file or of a block are kept as a list of runs <<value, count>>,
\* with count > 0 and adjacent runs of different values, so that a file of several
\* blocks of BLOCK_SIZE bytes is a small value.  Expand gives the byte sequence.
RECURSIVE RunsLen(_)
RunsLen(runs) == IF runs = <<>> THEN 0 ELSE runs[1][2] + RunsLen(Tail(runs))

Expand(runs) == Flatten([i \in 1..Len(runs) |-> Repeat(runs[i][1], runs[i][2])])

\* a + b for bytes
ConcatRuns(a, b) ==
    IF a = <<>> THEN b
    ELSE IF b = <<>> THEN a
    ELSE IF a[Len(a)][1] = b[1][1]
         THEN SubSeq(a, 1, Len(a) - 1) \o <<<<b[1][1], a[Len(a)][2] + b[1][2]>>>> \o Tail(b)
         ELSE a \o b

RECURSIVE ToRuns(_)
ToRuns(bytes) ==
    IF bytes = <<>> THEN <<>>
    ELSE ConcatRuns(ToRuns(SubSeq(bytes, 1, Len(bytes) - 1)), <<<<bytes[Len(bytes)], 1>>>>)

\* the first n bytes
RECURSIVE TakeRuns(_, _)
TakeRuns(runs, n) ==
    IF n <= 0 \/ runs = <<>> THEN <<>>
    ELSE IF runs[1][2] >= n THEN <<<<runs[1][1], n>>>>
    ELSE <<runs[1]>> \o TakeRuns(Tail(runs), n - runs[1][2])

\* the bytes after the first n
RECURSIVE DropRuns(_, _)
DropRuns(runs, n) ==
    IF n <= 0 \/ runs = <<>> THEN runs
    ELSE IF runs[1][2] > n THEN <<<<runs[1][1], runs[1][2] - n>>>> \o Tail(runs)
    ELSE DropRuns(Tail(runs), n - runs[1][2])

----------------------------------------------------------------------------
(* utils/algorithms/bzip2.py *)

\* bz2.compress / bz2.decompress are the host's codec: a stream that decompresses
\* to the data it was made from, and an error (OSError, re-raised as ValueError)
\* for anything that is no such stream.
bzip2_encode(data) == [magic |-> "BZh", stream |-> data]

bzip2_decode(compressed_data) ==
    IF compressed_data.magic = "BZh"
    THEN Ok(compressed_data.stream)
    ELSE Raise("ValueError")

----------------------------------------------------------------------------
(* utils/support.py *)

\* A dict is the sequence of its <<key, value>> items, in the order of insertion.
Keys_(dict) == [i \in 1..Len(dict) |-> dict[i][1]]

\* dict.get(key): <<value>>, or <<>> for None
Get(dict, key) ==
    IF \E i \in 1..Len(dict) : dict[i][1] = key
    THEN <<dict[CHOOSE i \in 1..Len(dict) : dict[i][1] = key][2]>>
    ELSE <<>>

\* dict[key] = value: a new key goes last, a known key keeps its place
SetItem(dict, key, value) ==
    IF \E i \in 1..Len(dict) : dict[i][1] = key
    THEN [i \in 1..Len(dict) |-> IF dict[i][1] = key THEN <<key, value>> ELSE dict[i]]
    ELSE Append(dict, <<key, value>>)

\* an exception propagates: what follows a call runs only if the call raised nothing
AndThen(r, Rest(_)) == IF r.ok THEN Rest(r.val) ELSE r

\* except Exception as e: raise SomeError(...) from e
Reraise(r, err) == IF r.ok THEN r ELSE Raise(err)

\* the last stage of compress_data, the entropy coder of the mode: Ok(<<record>>),
\* or Ok(<<>>) for the None of an unknown mode
entropy_encode(mode, metadata, rle_encoded) ==
    IF mode = "lzw"
    THEN Ok(<<[data |-> lzw_encode(rle_encoded, initial_code_size, max_code_size),
               metadata |-> metadata]>>)
    ELSE IF mode = "huffman"
    THEN AndThen(huffman_encode(rle_encoded),
                 LAMBDA h : Ok(<<[metadata |-> metadata,
                                  data |-> h.data,
                                  huffman_codes |-> h.huffman_codes,
                                  padding_length |-> h.padding_length]>>))
    ELSE IF mode = "arithmetic"
    THEN AndThen(arithmetic_encode(rle_encoded),
                 LAMBDA a : Ok(<<[metadata |-> metadata, data |-> a]>>))
    ELSE Ok(<<>>)

\* compress_data: Ok(<<record>>), or Ok(<<>>) for the None of an unknown mode
compress_data(block_number, data, extension, mode, key) ==
    IF mode = "bzip2"
    THEN Ok(<<[metadata |-> [mode |-> mode, extension |-> extension,
                             block_number |-> block_number],
               data |-> bzip2_encode(data)]>>)
    ELSE LET sbwt == sbwt_encode(Expand(data), key)
             mtf == mft_encode(sbwt.last_column)
         IN  entropy_encode(mode,
                            [mode |-> mode, extension |-> extension,
                             block_number |-> block_number,
                             symbols |-> mtf.symbols, orig_ptr |-> sbwt.orig_ptr],
                            rle_encode(mtf.encoded))

\* the first stage of decompress_data, the entropy decoder of the mode
entropy_decode(mode, compressed_data) ==
    IF mode = "lzw"
    THEN lzw_decode(compressed_data.data, initial_code_size, max_code_size)
    ELSE IF mode = "huffman"
    THEN huffman_decode(compressed_data.data,
                        compressed_data.huffman_codes,
                        compressed_data.padding_length)
    ELSE arithmetic_decode(compressed_data.data)

\* the inverse transforms of decompress_data, from the RLE-encoded list on
inverse_transforms(rle_encoded, symbols, orig_ptr, key) ==
    AndThen(AndThen(AndThen(rle_encoded,
                            LAMBDA encoded : rle_decode(encoded)),
                    LAMBDA rle_decoded : mft_decode(rle_decoded, symbols)),
            LAMBDA mtf_decoded : sbwt_decode(mtf_decoded, orig_ptr, key))

\* metadata.get(key) for the metadata of a frame: <<value>>, or <<>> for None
metadata_get(metadata, key) ==
    IF key \in DOMAIN metadata THEN <<metadata[key]>> ELSE <<>>

\* decompress_data: Ok(<<[block_number, extension, data]>>), Ok(<<>>) for the None
\* of an unknown mode, or the exception raised; extension is <<>> for None
decompress_data(block_number, compressed_data, key) ==
    LET mode == compressed_data.metadata.mode
        extension == metadata_get(compressed_data.metadata, "extension")
    IN  IF mode = "bzip2"
        THEN AndThen(bzip2_decode(compressed_data.data),
                     LAMBDA d : Ok(<<[block_number |-> block_number,
                                      extension |-> extension,
                                      data |-> d]>>))
        ELSE IF mode \in {"lzw", "huffman", "arithmetic"}
        THEN AndThen(inverse_transforms(entropy_decode(mode, compressed_data),
                                        compressed_data.metadata.symbols,
                                        compressed_data.metadata.orig_ptr,
                                        key),
                     LAMBDA d : Ok(<<[block_number |-> block_number,
                                      extension |-> extension,
                                      data |-> ToRuns(d)]>>))
        ELSE Ok(<<>>)

\* compress_block: any exception of compress_data is re-raised as RuntimeError
compress_block(args) ==
    Reraise(compress_data(args.block_number, args.data, args.extension, args.mode, args.key),
            "RuntimeError")

\* decompress_block
decompress_block(args) ==
    Reraise(decompress_data(args.block_number, args.compressed_data, args.key),
            "RuntimeError")

----------------------------------------------------------------------------
(* utils/compress.py *)

BLOCK_SIZE == 65536

NoError == [kind |-> "none", idx |-> -1]

\* RuntimeError(f"Error compressing block {idx}: ...") and its counterpart
BlockError(idx) == [kind |-> "block", idx |-> idx]

\* RuntimeError("Failure of ... blocks ..."), RuntimeError("Block ... missing ...")
IncompleteError == [kind |-> "incomplete", idx |-> -1]

\* msg_np.packb(compressed_data, use_bin_type=True) and msg_np.unpackb: the
\* serialised record, from which unpackb gives the record back
packb(compressed_data) == [msgpack |-> compressed_data]

unpackb(packed_data) == packed_data.msgpack

\* a read loop that hands the extension to block 0 only
RECURSIVE read_blocks_extension_once(_, _, _, _, _)
read_blocks_extension_once(rest, block_number, extension, mode, key) ==
    LET input_data == TakeRuns(rest, BLOCK_SIZE)
    IN  IF input_data = <<>> THEN <<>>
        ELSE <<[block_number |-> block_number,
                data |-> input_data,
                extension |-> IF block_number = 0 THEN extension ELSE "",
                mode |-> mode,
                key |-> key_derivation(key, block_number)]>>
             \o read_blocks_extension_once(DropRuns(rest, BLOCK_SIZE), block_number + 1,
                                           extension, mode, key)

\* a read loop that numbers the blocks from 1
RECURSIVE read_blocks_from_one(_, _, _, _, _)
read_blocks_from_one(rest, block_number, extension, mode, key) ==
    LET input_data == TakeRuns(rest, BLOCK_SIZE)
    IN  IF input_data = <<>> THEN <<>>
        ELSE <<[block_number |-> block_number + 1,
                data |-> input_data,
                extension |-> extension,
                mode |-> mode,
                key |-> key_derivation(key, block_number + 1)]>>
             \o read_blocks_from_one(DropRuns(rest, BLOCK_SIZE), block_number + 1,
                                     extension, mode, key)

\* the read loop of compress_file: fin.read(BLOCK_SIZE) until it returns no byte
RECURSIVE read_blocks(_, _, _, _, _)
read_blocks(rest, block_number, extension, mode, key) ==
    LET input_data == TakeRuns(rest, BLOCK_SIZE)
    IN  IF input_data = <<>> THEN <<>>
        ELSE <<[block_number |-> block_number,
                data |-> input_data,
                extension |-> extension,
                mode |-> mode,
                key |-> key_derivation(key, block_number)]>>
             \o read_blocks(DropRuns(rest, BLOCK_SIZE), block_number + 1, extension, mode, key)

\* the extension the CLI passes: os.path.splitext(input_file)
InputExtension == ".txt"

\* compress_file up to the submission of the blocks to the pool
CompressStart ==
    /\ c_pc = "idle"
    /\ fn_pc = "off"
    /\ c_blocks' = read_blocks(in_file, 0, InputExtension, c_mode, c_key)
    /\ c_futures' = {c_blocks'[i].block_number : i \in 1..Len(c_blocks')}
    /\ compressed_blocks' = <<>>
    /\ c_pc' = "collect"
    /\ UNCHANGED <<in_file, c_mode, c_key, c_error, bin_file, fn_vars, sha256_order, d_vars>>

\* a collecting loop that files each result under the number of results so far
CompressCollectByArrival(idx) ==
    /\ c_pc = "collect"
    /\ idx \in c_futures
    /\ \E r \in {compress_block(c_blocks[idx + 1])} :
           IF r.ok /\ r.val # <<>>
           THEN /\ compressed_blocks' =
                       SetItem(compressed_blocks, Len(compressed_blocks), r.val[1])
                /\ c_futures' = c_futures \ {idx}
                /\ UNCHANGED <<c_pc, c_error>>
           ELSE /\ c_error' = BlockError(idx)
                /\ c_pc' = "failed"
                /\ UNCHANGED <<compressed_blocks, c_futures>>
    /\ UNCHANGED <<in_file, c_mode, c_key, c_blocks, bin_file, fn_vars, sha256_order, d_vars>>

\* one iteration of the loop over as_completed(futures): the future of block idx
\* is the next to complete
CompressCollect(idx) ==
    /\ c_pc = "collect"
    /\ idx \in c_futures
    /\ \E r \in {compress_block(c_blocks[idx + 1])} :
           IF r.ok /\ r.val # <<>>
           THEN /\ compressed_blocks' = SetItem(compressed_blocks, idx, r.val[1])
                /\ c_futures' = c_futures \ {idx}
                /\ UNCHANGED <<c_pc, c_error>>
           ELSE /\ c_error' = BlockError(idx)
                /\ c_pc' = "failed"
                /\ UNCHANGED <<compressed_blocks, c_futures>>
    /\ UNCHANGED <<in_file, c_mode, c_key, c_blocks, bin_file, fn_vars, sha256_order, d_vars>>

\* open(output_file, 'wb') placed before the loop over the futures
CompressOpenBeforePool ==
    /\ c_pc = "collect"
    /\ IF ~bin_file.exists
       THEN /\ bin_file' = [exists |-> TRUE, frames |-> <<>>]
            /\ UNCHANGED c_pc
       ELSE /\ c_futures = {}
            /\ c_pc' = IF Len(c_blocks) = 0 THEN "done" ELSE "write"
            /\ UNCHANGED bin_file
    /\ UNCHANGED <<in_file, c_mode, c_key, c_blocks, c_futures, compressed_blocks, c_error,
                   fn_vars, sha256_order, d_vars>>

\* after the pool: the count of failed blocks, then open(output_file, 'wb')
CompressOpen ==
    /\ c_pc = "collect"
    /\ c_futures = {}
    /\ LET block_number == Len(c_blocks)
           failed_blocks == Cardinality({idx \in 0..(block_number - 1) :
                                            Get(compressed_blocks, idx) = <<>>})
       IN  IF failed_blocks > 0
           THEN /\ c_error' = IncompleteError
                /\ c_pc' = "failed"
                /\ UNCHANGED bin_file
           ELSE /\ bin_file' = [exists |-> TRUE, frames |-> <<>>]
                /\ c_pc' = IF block_number = 0 THEN "done" ELSE "write"
                /\ UNCHANGED c_error
    /\ UNCHANGED <<in_file, c_mode, c_key, c_blocks, c_futures, compressed_blocks,
                   fn_vars, sha256_order, d_vars>>

\* a writing loop over compressed_blocks.values(): the results in the order in
\* which they were collected
CompressWriteInCollectionOrder ==
    /\ c_pc = "write"
    /\ LET idx == Len(bin_file.frames)
           last == idx + 1 = Len(c_blocks)
       IN  /\ bin_file' = [bin_file EXCEPT
                               !.frames = Append(@, packb(compressed_blocks[idx + 1][2]))]
           /\ c_pc' = IF last THEN "done" ELSE "write"
           /\ c_blocks' = IF last THEN <<>> ELSE c_blocks
           /\ compressed_blocks' = IF last THEN <<>> ELSE compressed_blocks
           /\ UNCHANGED c_error
    /\ UNCHANGED <<in_file, c_mode, c_key, c_futures, fn_vars, sha256_order, d_vars>>

\* one iteration of the writing loop: idx is the number of frames written so far.
\* After the last one compress_file returns, and its locals are gone.
CompressWrite ==
    /\ c_pc = "write"
    /\ LET idx == Len(bin_file.frames)
           compressed_data == Get(compressed_blocks, idx)
           last == idx + 1 = Len(c_blocks)
       IN  IF compressed_data = <<>>
           THEN /\ c_error' = IncompleteError
                /\ c_pc' = "failed"
                /\ UNCHANGED <<bin_file, c_blocks, compressed_blocks>>
           ELSE /\ bin_file' = [bin_file EXCEPT !.frames = Append(@, packb(compressed_data[1]))]
                /\ c_pc' = IF last THEN "done" ELSE "write"
                /\ c_blocks' = IF last THEN <<>> ELSE c_blocks
                /\ compressed_blocks' = IF last THEN <<>> ELSE compressed_blocks
                /\ UNCHANGED c_error
    /\ UNCHANGED <<in_file, c_mode, c_key, c_futures, fn_vars, sha256_order, d_vars>>

----------------------------------------------------------------------------
(* utils/decompress.py *)

\* UnboundLocalError: extension is assigned only in the loop over the futures
UnboundError == [kind |-> "unbound", idx |-> -1]

\* TypeError: output_file + extension with the None of a missing extension
ExtensionTypeError == [kind |-> "type", idx |-> -1]

\* a frame written without the metadata.extension field
WithoutExtension(frame) ==
    [msgpack |-> [frame.msgpack EXCEPT
                     !.metadata = [f \in (DOMAIN @) \ {"extension"} |-> @[f]]]]

\* a frame whose bzip2 stream is damaged: it is no bzip2 stream any more
Damaged(frame) ==
    IF frame.msgpack.metadata.mode = "bzip2"
    THEN [msgpack |-> [frame.msgpack EXCEPT !.data.magic = "???"]]
    ELSE frame

\* a frame whose metadata.block_number is n
Renumbered(frame, n) ==
    [msgpack |-> [frame.msgpack EXCEPT !.metadata.block_number = n]]

\* the frames with a block number missing, duplicated or out of range: the first
\* frame lost, the first frame twice, the last frame with the number after its own
Misnumbered(frames) ==
    IF frames = <<>> THEN {}
    ELSE {frames \o <<frames[1]>>,
          [frames EXCEPT ![Len(frames)] = Renumbered(frames[Len(frames)], Len(frames))]}
            \cup (IF Len(frames) >= 2 THEN {Tail(frames)} ELSE {})

\* the containers handed to decompress_file: the frames compress_file wrote, in
\* any order, the same with the first frame damaged, the frames in the order
\* written without their extension field, and misnumbered
Containers(frames) ==
    LET Shuffled == {<<>> \o [i \in 1..Len(frames) |-> frames[p[i]]] :
                        p \in Perms(1..Len(frames))}
    IN  Shuffled
            \cup {[c EXCEPT ![1] = Damaged(c[1])] : c \in Shuffled \ {<<>>}}
            \cup {<<>> \o [i \in 1..Len(frames) |-> WithoutExtension(frames[i])]}
            \cup Misnumbered(frames)

\* the parsing loop of decompress_file
parse_blocks(frames, key) ==
    [i \in 1..Len(frames) |->
        LET compressed_data == unpackb(frames[i])
            block_number == compressed_data.metadata.block_number
        IN  [block_number |-> block_number,
             compressed_data |-> compressed_data,
             key |-> key_derivation(key, block_number)]]

\* decompress_file up to the submission of the blocks to the pool, on a container
\* made of the frames of the compressed file
DecompressStart(key) ==
    /\ d_pc = "idle"
    /\ c_pc = "done"
    /\ container' \in Containers(bin_file.frames)
    /\ d_key' = key
    /\ d_blocks' = parse_blocks(container', key)
    /\ d_futures' = 1..Len(container')
    /\ decompressed_blocks' = <<>>
    /\ d_pc' = "collect"
    /\ UNCHANGED <<d_extension, d_error, out_file, fn_vars, sha256_order, c_vars>>

\* a collecting loop whose errors name the position of the frame in the container
DecompressCollectNamingPosition(p) ==
    /\ d_pc = "collect"
    /\ p \in d_futures
    /\ \E idx \in {d_blocks[p].block_number}, r \in {decompress_block(d_blocks[p])} :
           IF r.ok /\ r.val # <<>> /\ r.val[1].data # <<>>
           THEN /\ d_extension' = <<r.val[1].extension>>
                /\ decompressed_blocks' = SetItem(decompressed_blocks, idx, r.val[1].data)
                /\ d_futures' = d_futures \ {p}
                /\ UNCHANGED <<d_pc, d_error>>
           ELSE /\ d_error' = BlockError(p - 1)
                /\ d_pc' = "failed"
                /\ UNCHANGED <<decompressed_blocks, d_futures, d_extension>>
    /\ UNCHANGED <<container, d_key, d_blocks, out_file, fn_vars, sha256_order, c_vars>>

\* one iteration of the loop over as_completed(futures): the future of the block
\* at position p of blocks is the next to complete
DecompressCollect(p) ==
    /\ d_pc = "collect"
    /\ p \in d_futures
    /\ \E idx \in {d_blocks[p].block_number}, r \in {decompress_block(d_blocks[p])} :
           IF r.ok /\ r.val # <<>>
           THEN /\ d_extension' = <<r.val[1].extension>>
                /\ IF r.val[1].data # <<>>
                   THEN /\ decompressed_blocks' = SetItem(decompressed_blocks, idx, r.val[1].data)
                        /\ d_futures' = d_futures \ {p}
                        /\ UNCHANGED <<d_pc, d_error>>
                   ELSE /\ d_error' = BlockError(idx)
                        /\ d_pc' = "failed"
                        /\ UNCHANGED <<decompressed_blocks, d_futures>>
           ELSE /\ d_error' = BlockError(idx)
                /\ d_pc' = "failed"
                /\ UNCHANGED <<decompressed_blocks, d_futures, d_extension>>
    /\ UNCHANGED <<container, d_key, d_blocks, out_file, fn_vars, sha256_order, c_vars>>

\* the values in the order of insertion: list(decompressed_blocks.values())
unsorted_values(dict) == [i \in 1..Len(dict) |-> dict[i][2]]

\* [decompressed_blocks[idx] for idx in sorted(decompressed_blocks.keys())]
sorted_values(dict) ==
    LET keys == SortedSeq(Range(Keys_(dict)))
    IN  [i \in 1..Len(keys) |-> Get(dict, keys[i])[1]]

\* the writing of the output file after a count of failed blocks that looks only
\* at the block numbers collected
DecompressWriteCountingCollected ==
    /\ d_pc = "collect"
    /\ d_futures = {}
    /\ LET failed_blocks == Cardinality({idx \in Range(Keys_(decompressed_blocks)) :
                                            Get(decompressed_blocks, idx) = <<>>})
           sorted_blocks == sorted_values(decompressed_blocks)
       IN  IF failed_blocks > 0
           THEN /\ d_error' = IncompleteError
                /\ d_pc' = "failed"
                /\ UNCHANGED out_file
           ELSE IF d_extension = <<>>
           THEN /\ d_error' = UnboundError
                /\ d_pc' = "failed"
                /\ UNCHANGED out_file
           ELSE IF d_extension[1] = <<>>
           THEN /\ d_error' = ExtensionTypeError
                /\ d_pc' = "failed"
                /\ UNCHANGED out_file
           ELSE /\ out_file' = [exists |-> TRUE,
                                extension |-> d_extension[1][1],
                                chunks |-> sorted_blocks]
                /\ d_pc' = "done"
                /\ UNCHANGED d_error
    /\ UNCHANGED <<container, d_key, d_blocks, d_futures, decompressed_blocks, d_extension,
                   fn_vars, sha256_order, c_vars>>

\* the writing of the output file with extension bound to "" before the pool
DecompressWriteDefaultExtension ==
    /\ d_pc = "collect"
    /\ d_futures = {}
    /\ LET failed_blocks == Cardinality({idx \in 0..(Len(d_blocks) - 1) :
                                            Get(decompressed_blocks, idx) = <<>>})
           sorted_blocks == sorted_values(decompressed_blocks)
       IN  IF failed_blocks > 0
           THEN /\ d_error' = IncompleteError
                /\ d_pc' = "failed"
                /\ UNCHANGED out_file
           ELSE IF d_extension = <<>>
           THEN /\ out_file' = [exists |-> TRUE, extension |-> "", chunks |-> sorted_blocks]
                /\ d_pc' = "done"
                /\ UNCHANGED d_error
           ELSE IF d_extension[1] = <<>>
           THEN /\ d_error' = ExtensionTypeError
                /\ d_pc' = "failed"
                /\ UNCHANGED out_file
           ELSE /\ out_file' = [exists |-> TRUE,
                                extension |-> d_extension[1][1],
                                chunks |-> sorted_blocks]
                /\ d_pc' = "done"
                /\ UNCHANGED d_error
    /\ UNCHANGED <<container, d_key, d_blocks, d_futures, decompressed_blocks, d_extension,
                   fn_vars, sha256_order, c_vars>>

\* after the pool: the count of failed blocks, the blocks in the order of their
\* sorted keys, and the writing of the output file
DecompressWrite ==
    /\ d_pc = "collect"
    /\ d_futures = {}
    /\ LET failed_blocks == Cardinality({idx \in 0..(Len(d_blocks) - 1) :
                                            Get(decompressed_blocks, idx) = <<>>})
           sorted_blocks == sorted_values(decompressed_blocks)
       IN  IF failed_blocks > 0
           THEN /\ d_error' = IncompleteError
                /\ d_pc' = "failed"
                /\ UNCHANGED out_file
           ELSE IF d_extension = <<>>
           THEN /\ d_error' = UnboundError
                /\ d_pc' = "failed"
                /\ UNCHANGED out_file
           ELSE IF d_extension[1] = <<>>
           THEN /\ d_error' = ExtensionTypeError
                /\ d_pc' = "failed"
                /\ UNCHANGED out_file
           ELSE /\ out_file' = [exists |-> TRUE,
                                extension |-> d_extension[1][1],
                                chunks |-> sorted_blocks]
                /\ d_pc' = "done"
                /\ UNCHANGED d_error
    /\ UNCHANGED <<container, d_key, d_blocks, d_futures, decompressed_blocks, d_extension,
                   fn_vars, sha256_order, c_vars>>

----------------------------------------------------------------------------
(* The drivers: compress_file, then decompress_file on what it wrote *)

\* bounds of the input files: the small files have at most MaxFileLen bytes, the
\* largest file has MaxBlocks full blocks and one byte
MaxFileLen == 2

MaxBlocks == 3

\* a large file: runs of LargeRun bytes, of the values 97 and 98 in turn
LargeRun == 50000

RECURSIVE LargeFile(_, _)
LargeFile(len, value) ==
    IF len <= 0 THEN <<>>
    ELSE IF len <= LargeRun THEN <<<<value, len>>>>
    ELSE <<<<value, LargeRun>>>> \o LargeFile(len - LargeRun, 195 - value)

SmallFiles == {ToRuns(x) : x \in SeqsUpTo(Bytes, MaxFileLen)}

LargeFiles ==
    {LargeFile(len, 97) : len \in {BLOCK_SIZE - 1, BLOCK_SIZE, BLOCK_SIZE + 1,
                                    2 * BLOCK_SIZE, MaxBlocks * BLOCK_SIZE + 1}}

\* the modes of the files the drivers are run on: modes the CLI accepts, and one
\* it does not accept (the arithmetic mode is run on single blocks, see BlockModes)
Modes == {"bzip2", "huffman", "lzw", "zip"}

\* the modes that run the SBWT pipeline, on the small files only
PipelineModes == {"huffman", "lzw"}

FnIdle ==
    /\ fn_pc = "off"
    /\ fn_in = <<>>
    /\ fn_key = "none"
    /\ fn_enc = <<>>
    /\ fn_dec = NoResult

DriverIdle ==
    /\ in_file = <<>>
    /\ c_mode = "none"
    /\ c_key = "none"
    /\ c_pc = "off"
    /\ c_blocks = <<>>
    /\ c_futures = {}
    /\ compressed_blocks = <<>>
    /\ c_error = NoError
    /\ bin_file = [exists |-> FALSE, frames |-> <<>>]
    /\ container = <<>>
    /\ d_key = "none"
    /\ d_pc = "off"
    /\ d_blocks = <<>>
    /\ d_futures = {}
    /\ decompressed_blocks = <<>>
    /\ d_extension = <<>>
    /\ d_error = NoError
    /\ out_file = [exists |-> FALSE, extension |-> "", chunks |-> <<>>]

Init ==
    /\ FnIdle
    /\ c_mode \in Modes
    /\ in_file \in IF c_mode \in PipelineModes THEN SmallFiles ELSE SmallFiles \cup LargeFiles
    /\ c_key = "keyA"
    /\ sha256_order \in IF c_mode \in PipelineModes
                        THEN [Keys -> Perms(Bytes)]
                        ELSE {[k \in Keys |-> SortedSeq(Bytes)]}
    /\ c_pc = "idle"
    /\ c_blocks = <<>>
    /\ c_futures = {}
    /\ compressed_blocks = <<>>
    /\ c_error = NoError
    /\ bin_file = [exists |-> FALSE, frames |-> <<>>]
    /\ container = <<>>
    /\ d_key = "none"
    /\ d_pc = "idle"
    /\ d_blocks = <<>>
    /\ d_futures = {}
    /\ decompressed_blocks = <<>>
    /\ d_extension = <<>>
    /\ d_error = NoError
    /\ out_file = [exists |-> FALSE, extension |-> "", chunks |-> <<>>]

Next ==
    \/ CompressStart
    \/ \E idx \in c_futures : CompressCollect(idx)
    \/ CompressOpen
    \/ CompressWrite
    \/ \E key \in Keys : DecompressStart(key)
    \/ \E p \in d_futures : DecompressCollect(p)
    \/ DecompressWrite

Spec == Init /\ [][Next]_vars

----------------------------------------------------------------------------
(* Properties of the drivers *)

\* the bytes of a file written chunk by chunk
RECURSIVE FileBytes(_)
FileBytes(chunks) ==
    IF chunks = <<>> THEN <<>>
    ELSE ConcatRuns(FileBytes(SubSeq(chunks, 1, Len(chunks) - 1)), chunks[Len(chunks)])

\* ceil(len / BLOCK_SIZE)
NumBlocks(file) == (RunsLen(file) + BLOCK_SIZE - 1) \div BLOCK_SIZE

\* bytes [i * BLOCK_SIZE, (i + 1) * BLOCK_SIZE) of a file
BlockOf(file, i) == TakeRuns(DropRuns(file, i * BLOCK_SIZE), BLOCK_SIZE)

\* the frame of block i of the input file, from the input, the mode and the key alone
ExpectedFrame(i) ==
    packb(compress_data(i, BlockOf(in_file, i), InputExtension, c_mode,
                        key_derivation(c_key, i)).val[1])

\* the worker of a block raises, or returns None
CompressWorkerFailed(args) ==
    \E r \in {compress_block(args)} : ~r.ok \/ r.val = <<>>

\* the worker of a frame raises, returns None, or returns no byte
DecompressWorkerFailed(args) ==
    \E r \in {decompress_block(args)} : ~r.ok \/ r.val = <<>> \/ r.val[1].data = <<>>

\* C1: once decompress_file has ended on the container compress_file wrote, with
\* the key it was compressed with, it has succeeded and the output file holds the
\* bytes of the input file.
C1_RoundTrip ==
    (d_pc \in {"done", "failed"} /\ d_key = c_key /\ container = bin_file.frames)
        => (d_pc = "done" /\ FileBytes(out_file.chunks) = in_file)

\* C3: whatever the order in which the futures completed, the frames written so
\* far are the frames of blocks 0, 1, ... of the input file, each computed from
\* the input, the mode and the key alone, and the finished file holds all of them.
C3_OutputIsFunctionOfInput ==
    bin_file.exists =>
        /\ Len(bin_file.frames) <= NumBlocks(in_file)
        /\ \A i \in 1..Len(bin_file.frames) : bin_file.frames[i] = ExpectedFrame(i - 1)
        /\ c_pc = "done" => Len(bin_file.frames) = NumBlocks(in_file)

\* compress_file is writing a file of at least three different frames, of which
\* two are written, and the first future to complete was not that of block 0.
C3_Witness ==
    /\ c_pc = "write"
    /\ Len(c_blocks) >= 3
    /\ Len(bin_file.frames) >= 2
    /\ bin_file.frames[1] # bin_file.frames[2]
    /\ Keys_(compressed_blocks)[1] # 0

\* C4: the output file of decompress_file holds one chunk per frame, and chunk i
\* is the decoded data of the frame whose metadata.block_number is i, wherever
\* that frame stands in the container and whenever its worker completed.
C4_AscendingBlockNumber ==
    d_pc = "done" =>
        /\ Len(out_file.chunks) = Len(container)
        /\ \A i \in 1..Len(container) :
              \E p \in 1..Len(container) :
                 /\ unpackb(container[p]).metadata.block_number = i - 1
                 /\ out_file.chunks[i]
                       = decompress_data(i - 1, unpackb(container[p]),
                                         key_derivation(d_key, i - 1)).val[1].data

\* decompress_file has written at least three chunks, the first two different,
\* from a container that does not start with block 0 and whose workers did not
\* complete in the order of the block numbers.
C4_Witness ==
    /\ d_pc = "done"
    /\ Len(out_file.chunks) >= 3
    /\ out_file.chunks[1] # out_file.chunks[2]
    /\ unpackb(container[1]).metadata.block_number # 0
    /\ Keys_(decompressed_blocks)[1] > Keys_(decompressed_blocks)[2]

\* C5: when decompress_file succeeds with a key other than the key of
\* compress_file, the output file does not hold the bytes of the input file.
C5_WrongKeyNeverRecovers ==
    (d_pc = "done" /\ d_key # c_key) => FileBytes(out_file.chunks) # in_file

\* C6: while the worker of some block fails, its future is still to be collected,
\* no output file is opened, and the operation is in its collecting loop or has
\* aborted; when it has aborted, the error names a block whose worker failed.
C6_FailureNamesFailingBlock ==
    /\ \A i \in 1..Len(c_blocks) :
          CompressWorkerFailed(c_blocks[i]) =>
             /\ c_pc \in {"collect", "failed"}
             /\ c_blocks[i].block_number \in c_futures
             /\ ~bin_file.exists
             /\ c_pc = "failed" =>
                   /\ c_error.kind = "block"
                   /\ c_error.idx \in 0..(Len(c_blocks) - 1)
                   /\ CompressWorkerFailed(c_blocks[c_error.idx + 1])
    /\ \A p \in 1..Len(d_blocks) :
          DecompressWorkerFailed(d_blocks[p]) =>
             /\ d_pc \in {"collect", "failed"}
             /\ p \in d_futures
             /\ ~out_file.exists
             /\ d_pc = "failed" =>
                   /\ d_error.kind = "block"
                   /\ \E q \in 1..Len(d_blocks) :
                         /\ d_blocks[q].block_number = d_error.idx
                         /\ DecompressWorkerFailed(d_blocks[q])

\* decompress_file has aborted on a damaged frame after it had collected the
\* result of another one; the damaged frame is the first of the container, and
\* the block number the error names is not 0.
C6_Witness ==
    /\ d_pc = "failed"
    /\ d_error.kind = "block"
    /\ d_error.idx # 0
    /\ Len(decompressed_blocks) >= 1
    /\ DecompressWorkerFailed(d_blocks[1])
    /\ d_blocks[1].block_number = d_error.idx

\* C7: the blocks of compress_file are N = ceil(len / BLOCK_SIZE) blocks numbered
\* 0..N-1, each of BLOCK_SIZE bytes but the last, which holds the rest, and
\* together the input file; the finished file holds N frames numbered 0..N-1.
C7_BlockSplit ==
    LET N == NumBlocks(in_file)
    IN  /\ c_pc \in {"collect", "write", "failed"} =>
              /\ Len(c_blocks) = N
              /\ \A i \in 1..N :
                    /\ c_blocks[i].block_number = i - 1
                    /\ RunsLen(c_blocks[i].data)
                          = IF i < N THEN BLOCK_SIZE
                            ELSE RunsLen(in_file) - (N - 1) * BLOCK_SIZE
                    /\ RunsLen(c_blocks[i].data) \in 1..BLOCK_SIZE
              /\ FileBytes([i \in 1..N |-> c_blocks[i].data]) = in_file
        /\ c_pc = "done" =>
              /\ Len(bin_file.frames) = N
              /\ \A i \in 1..N : unpackb(bin_file.frames[i]).metadata.block_number = i - 1

\* compress_file has finished on a file of MaxBlocks full blocks and one byte: the
\* container holds MaxBlocks + 1 frames, the last one made from a block of one byte.
C7_Witness ==
    /\ c_pc = "done"
    /\ RunsLen(in_file) = MaxBlocks * BLOCK_SIZE + 1
    /\ Len(bin_file.frames) = MaxBlocks + 1
    /\ RunsLen(unpackb(bin_file.frames[MaxBlocks + 1]).data.stream) = 1

----------------------------------------------------------------------------
(* Component harness: RLE *)

\* bounds of the RLE inputs: a list of at most MaxRuns runs
MaxRuns == 3

RleValues == {0, 7, 255}

RleRunLens == {1, 2, 255, 256}

RleInputs ==
    {Flatten([i \in 1..Len(rs) |-> Repeat(rs[i][1], rs[i][2])]) :
        rs \in SeqsUpTo(RleValues \X RleRunLens, MaxRuns)}

InitRLE ==
    /\ fn_pc = "start"
    /\ fn_in \in RleInputs
    /\ fn_key = "none"
    /\ fn_enc = <<>>
    /\ fn_dec = NoResult
    /\ sha256_order = NoHashes
    /\ DriverIdle

RleEncode ==
    /\ fn_pc = "start"
    /\ fn_enc' = rle_encode(fn_in)
    /\ fn_pc' = "encoded"
    /\ UNCHANGED <<fn_in, fn_key, fn_dec, sha256_order, c_vars, d_vars>>

RleDecode ==
    /\ fn_pc = "encoded"
    /\ fn_dec' = rle_decode(fn_enc)
    /\ fn_pc' = "decoded"
    /\ UNCHANGED <<fn_in, fn_key, fn_enc, sha256_order, c_vars, d_vars>>

NextRLE == RleEncode \/ RleDecode

SpecRLE == InitRLE /\ [][NextRLE]_vars

\* C8: rle_decode(rle_encode(x)) = x for every sequence x over 0..255,
\* the empty one, runs longer than 255 and 0xFF values included.
C8_RleRoundTrip ==
    fn_pc = "decoded" => (fn_dec.ok /\ fn_dec.val = fn_in)

\* a decoded input holding a run of more than 255 equal values, a single 0xFF
\* and a single other value
C8_Witness ==
    /\ fn_pc = "decoded"
    /\ Len(fn_in) = 258
    /\ fn_in[1] = 255 /\ fn_in[2] = 7 /\ fn_in[3] = 0 /\ fn_in[258] = 0
    /\ fn_enc = <<255, 0, 7, 255, 255, 0, 255, 1, 0>>
    /\ fn_dec.ok

----------------------------------------------------------------------------
(* Component harness: MTF *)

\* bound of the MTF inputs: byte strings of at most MaxMtfLen bytes
MaxMtfLen == 4

MtfBytes == {97, 98, 255}

InitMTF ==
    /\ fn_pc = "start"
    /\ fn_in \in SeqsUpTo(MtfBytes, MaxMtfLen)
    /\ fn_key = "none"
    /\ fn_enc = <<>>
    /\ fn_dec = NoResult
    /\ sha256_order = NoHashes
    /\ DriverIdle

MtfEncode ==
    /\ fn_pc = "start"
    /\ fn_enc' = mft_encode(fn_in)
    /\ fn_pc' = "encoded"
    /\ UNCHANGED <<fn_in, fn_key, fn_dec, sha256_order, c_vars, d_vars>>

MtfDecode ==
    /\ fn_pc = "encoded"
    /\ fn_dec' = mft_decode(fn_enc.encoded, fn_enc.symbols)
    /\ fn_pc' = "decoded"
    /\ UNCHANGED <<fn_in, fn_key, fn_enc, sha256_order, c_vars, d_vars>>

NextMTF == MtfEncode \/ MtfDecode

SpecMTF == InitMTF /\ [][NextMTF]_vars

\* C9: for every non-empty byte sequence x, mft_decode(indices, symbols) = x where
\* (indices, symbols) = mft_encode(x).
C9_MtfRoundTrip ==
    (fn_pc = "decoded" /\ fn_in # <<>>) => (fn_dec.ok /\ fn_dec.val = fn_in)

----------------------------------------------------------------------------
(* Component harness: SBWT *)

\* bound of the SBWT inputs: blocks of at most MaxSbwtLen bytes
MaxSbwtLen == 3

InitSBWT ==
    /\ fn_pc = "start"
    /\ fn_in \in SeqsUpTo(Bytes, MaxSbwtLen)
    /\ fn_key = key_derivation("keyA", 0)
    /\ fn_enc = <<>>
    /\ fn_dec = NoResult
    /\ sha256_order \in {h \in [Keys -> Perms(Bytes)] : h["keyB"] = h["keyA"]}
    /\ DriverIdle

SbwtEncode ==
    /\ fn_pc = "start"
    /\ fn_enc' = sbwt_encode(fn_in, fn_key)
    /\ fn_pc' = "encoded"
    /\ UNCHANGED <<fn_in, fn_key, fn_dec, sha256_order, c_vars, d_vars>>

SbwtDecode ==
    /\ fn_pc = "encoded"
    /\ fn_dec' = sbwt_decode(fn_enc.last_column, fn_enc.orig_ptr, fn_key)
    /\ fn_pc' = "decoded"
    /\ UNCHANGED <<fn_in, fn_key, fn_enc, sha256_order, c_vars, d_vars>>

NextSBWT == SbwtEncode \/ SbwtDecode

SpecSBWT == InitSBWT /\ [][NextSBWT]_vars

\* C2: for every non-empty byte sequence x and every key k,
\* sbwt_decode(L, p, k) = x where (L, p) = sbwt_encode(x, k), whatever byte
\* values 0..255 x holds and wherever it holds them.
C2_SbwtRoundTrip ==
    (fn_pc = "decoded" /\ fn_in # <<>>) => (fn_dec.ok /\ fn_dec.val = fn_in)

----------------------------------------------------------------------------
(* Component harness: Huffman *)

\* bound of the Huffman inputs: symbol lists of at most MaxHuffLen symbols
MaxHuffLen == 5

HuffSymbols == {0, 1, 2, 255}

InitHuffman ==
    /\ fn_pc = "start"
    /\ fn_in \in SeqsUpTo(HuffSymbols, MaxHuffLen) \ {<<>>}
    /\ fn_key = "none"
    /\ fn_enc = <<>>
    /\ fn_dec = NoResult
    /\ sha256_order = NoHashes
    /\ DriverIdle

HuffmanEncode ==
    /\ fn_pc = "start"
    /\ fn_enc' = huffman_encode(fn_in).val
    /\ fn_pc' = "encoded"
    /\ UNCHANGED <<fn_in, fn_key, fn_dec, sha256_order, c_vars, d_vars>>

HuffmanDecode ==
    /\ fn_pc = "encoded"
    /\ fn_dec' = huffman_decode(fn_enc.data, fn_enc.huffman_codes, fn_enc.padding_length)
    /\ fn_pc' = "decoded"
    /\ UNCHANGED <<fn_in, fn_key, fn_enc, sha256_order, c_vars, d_vars>>

NextHuffman == HuffmanEncode \/ HuffmanDecode

SpecHuffman == InitHuffman /\ [][NextHuffman]_vars

\* C10: for every non-empty sequence x of symbols in 0..255, one with a single
\* distinct symbol included, huffman_decode(huffman_encode(x)) = x.
C10_HuffmanRoundTrip ==
    fn_pc = "decoded" => (fn_dec.ok /\ fn_dec.val = fn_in)

----------------------------------------------------------------------------
(* Component harness: LZW *)

\* bounds of the LZW inputs: every symbol list of at most MaxLzwLen symbols, and
\* the long lists made of a ramp 0, 1, 2, ... (mod 256) and a tail of at most
\* MaxLzwTail symbols
MaxLzwLen == 5

MaxLzwTail == 3

LzwSymbols == {0, 1, 255}

LzwTailSymbols == {2, 3}

\* the smallest dictionary the code allows: it is full after 2^9 - 256 additions
SmallCodeSizes == <<9, 9>>

\* the number of strings the dictionary of SmallCodeSizes takes until it is full
LzwFull == Pow2(SmallCodeSizes[2]) - 256

Ramp(n) == [i \in 1..n |-> (i - 1) % 256]

\* ramps that end around the first and around the second reset of the dictionary
LzwRampLens == (LzwFull + 1)..(LzwFull + 4) \cup (2 * LzwFull + 3)..(2 * LzwFull + 6)

LzwLongInputs ==
    {Ramp(n) \o t : n \in LzwRampLens, t \in SeqsUpTo(LzwTailSymbols, MaxLzwTail)}

InitLZW ==
    /\ fn_pc = "start"
    /\ \/ /\ fn_in \in SeqsUpTo(LzwSymbols, MaxLzwLen)
          /\ fn_key \in {<<initial_code_size, max_code_size>>, SmallCodeSizes}
       \/ /\ fn_in \in LzwLongInputs
          /\ fn_key = SmallCodeSizes
    /\ fn_enc = <<>>
    /\ fn_dec = NoResult
    /\ sha256_order = NoHashes
    /\ DriverIdle

LzwEncode ==
    /\ fn_pc = "start"
    /\ fn_enc' = lzw_encode(fn_in, fn_key[1], fn_key[2])
    /\ fn_pc' = "encoded"
    /\ UNCHANGED <<fn_in, fn_key, fn_dec, sha256_order, c_vars, d_vars>>

LzwDecode ==
    /\ fn_pc = "encoded"
    /\ fn_dec' = lzw_decode(fn_enc, fn_key[1], fn_key[2])
    /\ fn_pc' = "decoded"
    /\ UNCHANGED <<fn_in, fn_key, fn_enc, sha256_order, c_vars, d_vars>>

NextLZW == LzwEncode \/ LzwDecode

SpecLZW == InitLZW /\ [][NextLZW]_vars

\* C11: for every sequence x of symbols in 0..255, lzw_decode(lzw_encode(x)) = x,
\* also when the dictionary fills up and is reset, and when the encoder emits a
\* code the decoder has not defined yet.
C11_LzwRoundTrip ==
    fn_pc = "decoded" => (fn_dec.ok /\ fn_dec.val = fn_in)

\* A round trip in which the dictionary was reset twice: the encoder resets it as
\* it emits codes LzwFull + 1 and 2 * LzwFull + 2, the decoder one code later, so
\* that at code 2 * LzwFull + 4 the decoder's dictionary ends at 255 and the
\* code 256 it reads there is one it has not defined.
C11_Witness ==
    /\ fn_pc = "decoded"
    /\ fn_key = SmallCodeSizes
    /\ fn_dec = Ok(fn_in)
    /\ Len(fn_enc) >= 2 * LzwFull + 4
    /\ fn_enc[2 * LzwFull + 4] = 256

----------------------------------------------------------------------------
(* Component harness: arithmetic coder *)

MaxArithLen == 4

ArithSymbols == {0, 1, 2, 255}

InitArithmetic ==
    /\ fn_pc = "start"
    /\ fn_in \in SeqsUpTo(ArithSymbols, MaxArithLen)
    /\ fn_key = <<>>
    /\ fn_enc = NoResult
    /\ fn_dec = NoResult
    /\ sha256_order = NoHashes
    /\ DriverIdle

ArithmeticEncode ==
    /\ fn_pc = "start"
    /\ fn_enc' = arithmetic_encode(fn_in)
    /\ fn_pc' = "encoded"
    /\ UNCHANGED <<fn_in, fn_key, fn_dec, sha256_order, c_vars, d_vars>>

ArithmeticDecode ==
    /\ fn_pc = "encoded"
    /\ fn_enc.ok
    /\ fn_dec' = arithmetic_decode(fn_enc.val)
    /\ fn_pc' = "decoded"
    /\ UNCHANGED <<fn_in, fn_key, fn_enc, sha256_order, c_vars, d_vars>>

NextArithmetic == ArithmeticEncode \/ ArithmeticDecode

SpecArithmetic == InitArithmetic /\ [][NextArithmetic]_vars

\* C12: for every non-empty sequence x of symbols in 0..255,
\* arithmetic_decode(arithmetic_encode(x)) = x: the decoder emits exactly the
\* symbols of x and stops at the EOF symbol.
C12_ArithmeticRoundTrip ==
    /\ (fn_pc # "start" /\ fn_in # <<>>) => fn_enc.ok
    /\ fn_pc = "decoded" => fn_dec = Ok(fn_in)

\* a round trip of an input that repeats a symbol, so that the adaptive
\* frequencies differ from the flat prior while it is coded
C12_Witness ==
    /\ fn_pc = "decoded"
    /\ Len(fn_in) = MaxArithLen
    /\ fn_in[1] = fn_in[2] /\ fn_in[3] = 255
    /\ fn_dec = Ok(fn_in)

----------------------------------------------------------------------------
(* The SBWT terminator *)

\* C13: for every block x the sequence handed to the suffix sort is x with
\* exactly one 0xFF terminator appended, of length |x| + 1, and sbwt_decode
\* removes exactly that terminator: it returns |x| bytes.
C13_TerminatorAddedAndRemoved ==
    /\ fn_pc # "start" =>
           /\ Len(Terminated(fn_in)) = Len(fn_in) + 1
           /\ Len(fn_enc.last_column) = Len(fn_in) + 1
    /\ fn_pc = "decoded" => (fn_dec.ok /\ Len(fn_dec.val) = Len(fn_in))

----------------------------------------------------------------------------
(* Component harness: sbwt_decode on any last column and pointer *)

MaxLastColumn == 3

\* orig_ptr ranges over 0..MaxLastColumn + MaxPtrExcess
MaxPtrExcess == 1

InitSbwtDecode ==
    /\ fn_pc = "encoded"
    /\ fn_in = <<>>
    /\ fn_key = key_derivation("keyA", 0)
    /\ fn_enc \in [last_column : SeqsUpTo(Bytes, MaxLastColumn),
                   orig_ptr : 0..(MaxLastColumn + MaxPtrExcess)]
    /\ fn_dec = NoResult
    /\ sha256_order \in {h \in [Keys -> Perms(Bytes)] : h["keyB"] = h["keyA"]}
    /\ DriverIdle

SpecSbwtDecode == InitSbwtDecode /\ [][SbwtDecode]_vars

\* C14: sbwt_decode fails with an error whenever the last column it is given
\* holds no 0xFF terminator byte; it never returns a decoded result for it.
C14_NoTerminatorFails ==
    (fn_pc = "decoded" /\ EOF \notin Range(fn_enc.last_column)) => ~fn_dec.ok

\* C15: sbwt_decode fails with an error whenever orig_ptr >= n, n >= 1 being
\* the length of the last column; it never returns a decoded result then.
C15_PointerOutOfRangeFails ==
    (/\ fn_pc = "decoded"
     /\ Len(fn_enc.last_column) >= 1
     /\ fn_enc.orig_ptr >= Len(fn_enc.last_column)) => ~fn_dec.ok

----------------------------------------------------------------------------
(* Component harness: rle_decode on any byte list *)

MaxRleStream == 4

RleStreamBytes == {0, 2, 7, 255}

InitRleDecode ==
    /\ fn_pc = "encoded"
    /\ fn_in = <<>>
    /\ fn_key = "none"
    /\ fn_enc \in SeqsUpTo(RleStreamBytes, MaxRleStream)
    /\ fn_dec = NoResult
    /\ sha256_order = NoHashes
    /\ DriverIdle

SpecRleDecode == InitRleDecode /\ [][RleDecode]_vars

\* The input ends inside an escape sequence that starts at index (1-based):
\* read as literals, 0xFF 0x00 pairs and 0xFF length symbol triples, the list
\* ends with a lone 0xFF or with 0xFF and a non-zero length byte.
RECURSIVE TruncatedInEscape(_, _)
TruncatedInEscape(data, index) ==
    IF index > Len(data) THEN FALSE
    ELSE IF data[index] # ESC THEN TruncatedInEscape(data, index + 1)
    ELSE IF index + 1 > Len(data) THEN TRUE
    ELSE IF data[index + 1] = 0 THEN TruncatedInEscape(data, index + 2)
    ELSE IF index + 2 > Len(data) THEN TRUE
    ELSE TruncatedInEscape(data, index + 3)

\* C16: rle_decode fails with an error on every input that is truncated
\* inside an escape sequence: one ending with a lone 0xFF, and one ending
\* with 0xFF and a non-zero length byte with no symbol byte after it.
C16_TruncatedEscapeFails ==
    (fn_pc = "decoded" /\ TruncatedInEscape(fn_enc, 1)) => ~fn_dec.ok

----------------------------------------------------------------------------
(* Component harness: compress_data and decompress_data on one block *)

MaxBlockLen == 4

\* every mode the CLI accepts, and one it does not accept
BlockModes == {"bzip2", "huffman", "lzw", "arithmetic", "zip"}

InitBlock ==
    /\ fn_pc = "start"
    /\ fn_in \in SeqsUpTo(Bytes, MaxBlockLen)
    /\ fn_key \in [mode : BlockModes, key : {key_derivation("keyA", 0)}]
    /\ fn_enc = NoResult
    /\ fn_dec = NoResult
    /\ sha256_order \in {h \in [Keys -> Perms(Bytes)] :
                            h["keyB"] = h["keyA"] /\ h["keyA"][1] = 97}
    /\ DriverIdle

CompressData ==
    /\ fn_pc = "start"
    /\ fn_enc' = compress_data(0, ToRuns(fn_in), InputExtension, fn_key.mode, fn_key.key)
    /\ fn_pc' = "encoded"
    /\ UNCHANGED <<fn_in, fn_key, fn_dec, sha256_order, c_vars, d_vars>>

DecompressData ==
    /\ fn_pc = "encoded"
    /\ fn_enc.ok /\ fn_enc.val # <<>>
    /\ fn_dec' = decompress_data(0, fn_enc.val[1], fn_key.key)
    /\ fn_pc' = "decoded"
    /\ UNCHANGED <<fn_in, fn_key, fn_enc, sha256_order, c_vars, d_vars>>

NextBlock == CompressData \/ DecompressData

SpecBlock == InitBlock /\ [][NextBlock]_vars

\* the fields a record of compress_data carries, by its mode
RecordFields(compressed_data) ==
    LET fields == DOMAIN compressed_data
        metadata == DOMAIN compressed_data.metadata
        mode == compressed_data.metadata.mode
    IN  /\ {"mode", "block_number", "extension"} \subseteq metadata
        /\ IF mode # "bzip2"
           THEN {"symbols", "orig_ptr"} \subseteq metadata
           ELSE {"symbols", "orig_ptr"} \cap metadata = {}
        /\ IF mode = "huffman"
           THEN /\ {"huffman_codes", "padding_length"} \subseteq fields
                /\ compressed_data.padding_length \in 0..7
           ELSE {"huffman_codes", "padding_length"} \cap fields = {}

\* C17: every record produced by compress_data carries metadata.mode,
\* metadata.block_number and metadata.extension; metadata.symbols and
\* metadata.orig_ptr exactly when the mode is not bzip2; huffman_codes and
\* padding_length exactly when the mode is huffman, padding_length in 0..7.
C17_RecordFields ==
    (fn_pc # "start" /\ fn_enc.ok /\ fn_enc.val # <<>>) => RecordFields(fn_enc.val[1])

\* a huffman record whose code bits fill whole bytes
C17_Witness ==
    /\ fn_pc = "encoded"
    /\ fn_key.mode = "huffman"
    /\ fn_enc.ok /\ fn_enc.val # <<>>
    /\ fn_enc.val[1].padding_length = 0
    /\ Len(fn_enc.val[1].data) >= 1

----------------------------------------------------------------------------
(* Containers without the extension field *)

\* the container is made of frames, none of which has a metadata.extension
NoExtensionContainer ==
    /\ container # <<>>
    /\ \A i \in 1..Len(container) :
           "extension" \notin DOMAIN container[i].msgpack.metadata

\* C18: when the frames of a container carry no metadata.extension field,
\* decompress_file still succeeds: once it has ended on such a container, all
\* of whose blocks decompress, it has written the output file.
C18_MissingExtensionTolerated ==
    (/\ d_pc \in {"done", "failed"}
     /\ NoExtensionContainer
     /\ \A p \in 1..Len(d_blocks) : ~DecompressWorkerFailed(d_blocks[p]))
        => (d_pc = "done" /\ out_file.exists)

----------------------------------------------------------------------------
(* The header of the arithmetic coder *)

\* C19, as stated: the 4-byte big-endian header written by arithmetic_encode
\* is M = max(input) + 1.
C19_HeaderIsM ==
    (fn_pc # "start" /\ fn_in # <<>>) =>
        (fn_enc.ok /\ unpack_I(fn_enc.val) = Max(fn_in) + 1)

\* C19, amended: the 4-byte big-endian header written by arithmetic_encode is
\* max(input) + 2, the number of symbols of the alphabet 0..M, and the EOF
\* symbol that encoder and decoder take from it is M = max(input) + 1.
C19_HeaderIsSymbolCount ==
    (fn_pc # "start" /\ fn_in # <<>>) =>
        /\ fn_enc.ok
        /\ Len(fn_enc.val) > 4
        /\ SubSeq(fn_enc.val, 1, 4) = <<0, 0, (Max(fn_in) + 2) \div 256,
                                        (Max(fn_in) + 2) % 256>>
        /\ unpack_I(fn_enc.val) = Max(fn_in) + 2
        /\ eof_symbol(unpack_I(fn_enc.val)) = Max(fn_in) + 1

\* an input that holds 255: the header is 257, in two bytes
C19_Witness ==
    /\ fn_pc = "encoded"
    /\ fn_in # <<>>
    /\ Max(fn_in) = 255
    /\ fn_enc.ok
    /\ SubSeq(fn_enc.val, 1, 4) = <<0, 0, 1, 1>>

----------------------------------------------------------------------------
(* A single-byte block in arithmetic mode *)

\* the block is one byte and compress_data has coded it in arithmetic mode
SingleByteArithmetic ==
    /\ fn_pc # "start"
    /\ fn_key.mode = "arithmetic"
    /\ Len(fn_in) = 1

\* the original statement of C20: the header of the payload is 2 and decoding
\* it emits exactly one symbol
C20_SingleByteHeaderIsTwo ==
    SingleByteArithmetic =>
        /\ fn_enc.ok /\ fn_enc.val # <<>>
        /\ unpack_I(SubSeq(fn_enc.val[1].data, 1, 4)) = 2
        /\ arithmetic_decode(fn_enc.val[1].data).ok
        /\ Len(arithmetic_decode(fn_enc.val[1].data).val) = 1

\* C20: compressing a single-byte input in arithmetic mode gives a payload
\* whose header is 2 and which decodes to the one symbol 0 only when the byte
\* is 0xFF, which sbwt_encode takes for the terminator. For any other byte the
\* terminator is appended and two ranks are coded: when the key's order ranks
\* the byte before 0xFF the header is 257 and the payload decodes to the three
\* symbols 255, 2, 1 of an RLE run, otherwise the header is 3 and the payload
\* decodes to the two symbols 0, 1.
C20_SingleByteFrame ==
    SingleByteArithmetic =>
        /\ fn_enc.ok /\ fn_enc.val # <<>>
        /\ LET data == fn_enc.val[1].data
               header == unpack_I(SubSeq(data, 1, 4))
               decoded == arithmetic_decode(data)
               custom_order == generate_order_from_key(Terminated(fn_in), fn_key.key)
           IN  IF fn_in[1] = EOF
               THEN header = 2 /\ decoded = Ok(<<0>>)
               ELSE IF custom_order[fn_in[1]] < custom_order[EOF]
               THEN header = 257 /\ decoded = Ok(<<255, 2, 1>>)
               ELSE header = 3 /\ decoded = Ok(<<0, 1>>)

\* a byte the key's order ranks after 0xFF has been coded
C20_Witness ==
    /\ SingleByteArithmetic
    /\ fn_in = <<98>>
    /\ sha256_order["keyA"] = <<97, 255, 98>>
    /\ fn_enc.ok /\ fn_enc.val # <<>>
    /\ SubSeq(fn_enc.val[1].data, 1, 4) = <<0, 0, 0, 3>>

----------------------------------------------------------------------------
(* hpsbwt.py: main *)

\* A str is a list of runs <<character, count>>.
\* len(s)
str_len(s) == SumRange([i \in 1..Len(s) |-> s[i][2]], 1, Len(s))

\* str.isalnum(): every character is a letter or a digit, and there is one
isalnum(s) == s # <<>> /\ \A i \in 1..Len(s) : s[i][1] \in {"a", "7"}

\* str.strip(): the leading and trailing whitespace is removed
RECURSIVE strip(_)
strip(s) ==
    IF s = <<>> THEN s
    ELSE IF s[1][1] = " " THEN strip(Tail(s))
    ELSE IF s[Len(s)][1] = " " THEN strip(SubSeq(s, 1, Len(s) - 1))
    ELSE s

\* the test of line 94 with the upper limit left out
key_is_invalid_no_upper_limit(key) ==
    key = <<>> \/ ~(16 <= str_len(key)) \/ ~isalnum(key)

\* the test of line 94
key_is_invalid(key) ==
    key = <<>> \/ ~(16 <= str_len(key) /\ str_len(key) <= 32) \/ ~isalnum(key)

\* sys.exit(1)
sys_exit(status) == [exit |-> <<status>>, call |-> <<>>]

\* main has ended in a call of compress_file or decompress_file
Called(fn, key, mode) == [exit |-> <<>>, call |-> <<[fn |-> fn, key |-> key, mode |-> mode]>>]

\* lines 69-82: compress needs a mode, decompress takes none
CliCheckArguments ==
    /\ fn_pc = "start"
    /\ IF \/ fn_in.operation = "compress" /\ fn_in.mode = <<>>
          \/ fn_in.operation = "decompress" /\ fn_in.mode # <<>>
       THEN fn_pc' = "exited" /\ fn_enc' = sys_exit(1) /\ UNCHANGED fn_dec
       ELSE fn_pc' = "load" /\ fn_dec' = fn_in.key /\ UNCHANGED fn_enc
    /\ UNCHANGED <<fn_in, fn_key, sha256_order, c_vars, d_vars>>

\* lines 85-92: a key that names a file is replaced by the file's stripped text
CliLoadKey ==
    /\ fn_pc = "load"
    /\ IF ~fn_key.isfile
       THEN fn_pc' = "validate" /\ UNCHANGED <<fn_dec, fn_enc>>
       ELSE IF fn_key.readable
       THEN fn_pc' = "validate" /\ fn_dec' = strip(fn_key.text) /\ UNCHANGED fn_enc
       ELSE fn_pc' = "exited" /\ fn_enc' = sys_exit(1) /\ UNCHANGED fn_dec
    /\ UNCHANGED <<fn_in, fn_key, sha256_order, c_vars, d_vars>>

\* lines 94-102: an invalid key ends the program, a valid one is handed on
CliValidateKey ==
    /\ fn_pc = "validate"
    /\ IF key_is_invalid(fn_dec)
       THEN fn_pc' = "exited" /\ fn_enc' = sys_exit(1)
       ELSE /\ fn_pc' = "called"
            /\ fn_enc' = Called(fn_in.operation \o "_file", fn_dec, fn_in.mode)
    /\ UNCHANGED <<fn_in, fn_key, fn_dec, sha256_order, c_vars, d_vars>>

MaxKeyRuns == 2

KeyChars == {"a", "7", "-"}

KeyRunLengths == {1, 15, 16, 17}

\* the strings given as keys, and the texts of key files with and without
\* surrounding whitespace
KeyStrings == SeqsUpTo(KeyChars \X KeyRunLengths, MaxKeyRuns)

KeyFileTexts == KeyStrings \cup {<<<<" ", 1>>>> \o s \o <<<<" ", 2>>>> : s \in KeyStrings}

\* the file system at the path the key argument names
NoKeyFile == [isfile |-> FALSE, readable |-> FALSE, text |-> <<>>]

KeyFiles ==
    {[isfile |-> TRUE, readable |-> FALSE, text |-> <<>>]}
        \cup {[isfile |-> TRUE, readable |-> TRUE, text |-> t] : t \in KeyFileTexts}

\* the paths of key files: one that reads as a valid key, one that does not
KeyPaths == {<<<<"a", 16>>>>, <<<<"-", 1>>>>}

InitCli ==
    /\ fn_pc = "start"
    /\ \/ fn_key = NoKeyFile /\ fn_in \in [operation : {"compress", "decompress"},
                                           mode : {<<>>, <<"huffman">>},
                                           key : KeyStrings]
       \/ fn_key \in KeyFiles /\ fn_in \in [operation : {"compress", "decompress"},
                                            mode : {<<>>, <<"huffman">>},
                                            key : KeyPaths]
    /\ fn_enc = [exit |-> <<>>, call |-> <<>>]
    /\ fn_dec = <<>>
    /\ sha256_order = NoHashes
    /\ DriverIdle

NextCli == CliCheckArguments \/ CliLoadKey \/ CliValidateKey

SpecCli == InitCli /\ [][NextCli]_vars

\* the key has 16 to 32 characters, all of them alphanumeric
ValidMasterKey(key) ==
    /\ 16 <= str_len(key) /\ str_len(key) <= 32
    /\ \A i \in 1..Len(key) : key[i][1] # "-" /\ key[i][1] # " "

\* main has got past the checks of operation and mode and has ended, without
\* a failure to read a key file
CliEndedOnKey ==
    /\ fn_pc \in {"called", "exited"}
    /\ ~(fn_in.operation = "compress" /\ fn_in.mode = <<>>)
    /\ ~(fn_in.operation = "decompress" /\ fn_in.mode # <<>>)
    /\ fn_key.isfile => fn_key.readable

\* the key after the optional load from a key file
LoadedKey == IF fn_key.isfile THEN strip(fn_key.text) ELSE fn_in.key

\* C21: once the operation and mode are accepted, main calls compress_file or
\* decompress_file, with the key after the optional load, if and only if that
\* key has 16 to 32 characters, all alphanumeric; otherwise it exits with
\* status 1 and calls neither.
C21_KeyAcceptedIffValid ==
    CliEndedOnKey =>
        IF ValidMasterKey(LoadedKey)
        THEN /\ fn_pc = "called"
             /\ fn_enc.exit = <<>>
             /\ fn_enc.call = <<[fn |-> fn_in.operation \o "_file", key |-> LoadedKey,
                                 mode |-> fn_in.mode]>>
        ELSE /\ fn_pc = "exited"
             /\ fn_enc.exit = <<1>>
             /\ fn_enc.call = <<>>

\* a key file whose stripped text has 32 characters has been accepted
C21_Witness ==
    /\ fn_pc = "called"
    /\ fn_key.isfile
    /\ fn_key.text # strip(fn_key.text)
    /\ str_len(fn_dec) = 32
    /\ fn_enc.call # <<>>
    /\ fn_enc.call[1].fn = "decompress_file"

----------------------------------------------------------------------------
(* The output of rle_encode, run by run *)

\* the maximal runs of data, as pairs <<value, length>>
MaximalRuns(data) ==
    LET starts == SortedSeq({i \in 1..Len(data) : i = 1 \/ data[i] # data[i - 1]})
    IN  [k \in 1..Len(starts) |->
            <<data[starts[k]],
              (IF k = Len(starts) THEN Len(data) + 1 ELSE starts[k + 1]) - starts[k]>>]

\* out is what the statement allows for a maximal run of l values v
IsRunEncoding(out, v, l) ==
    IF l = 1
    THEN out = IF v = 255 THEN <<255, 0>> ELSE <<v>>
    ELSE \E k \in 0..(l \div 255) : \E r \in 1..255 :
            /\ 255 * k + r = l
            /\ out = Flatten([i \in 1..k |-> <<255, 255, v>>]) \o <<255, r, v>>

\* the number of values rle_encode emits for a maximal run of l values v
RunEncodingLen(v, l) ==
    IF l = 1 THEN (IF v = 255 THEN 2 ELSE 1) ELSE 3 * ((l + 254) \div 255)

\* C22: the output of rle_encode is the concatenation, over the maximal runs
\* of its input, of: v for a run of one v other than 0xFF; 0xFF, 0x00 for a
\* single 0xFF; for a run of l >= 2, zero or more triples 0xFF, 0xFF, v then
\* one triple 0xFF, r, v with r in 1..255, the lengths summing to l. Every
\* emitted value is in 0..255.
C22_RleEncodeShape ==
    fn_pc # "start" =>
        LET runs == MaximalRuns(fn_in)
            ends == [k \in 0..Len(runs) |->
                        SumRange([j \in 1..Len(runs) |-> RunEncodingLen(runs[j][1], runs[j][2])],
                                 1, k)]
        IN  /\ Len(fn_enc) = ends[Len(runs)]
            /\ \A k \in 1..Len(runs) :
                   IsRunEncoding(SubSeq(fn_enc, ends[k - 1] + 1, ends[k]),
                                 runs[k][1], runs[k][2])
            /\ \A i \in 1..Len(fn_enc) : fn_enc[i] \in 0..255

\* a single 0xFF, then a run of 511 zeros coded as two full segments and a
\* segment of one
C22_Witness ==
    /\ fn_pc = "encoded"
    /\ MaximalRuns(fn_in) = <<<<255, 1>>, <<0, 511>>>>
    /\ fn_enc = <<255, 0, 255, 255, 0, 255, 255, 0, 255, 1, 0>>

----------------------------------------------------------------------------
(* The symbols header of mft_encode *)

\* the distinct values of data in the order of their first appearance
FirstAppearance(data) ==
    LET firsts == SortedSeq({i \in 1..Len(data) : \A j \in 1..(i - 1) : data[j] # data[i]})
    IN  [k \in 1..Len(firsts) |-> data[firsts[k]]]

\* the original statement of C23: the symbols header lists the distinct bytes
\* of L in the order of their first appearance in L
C23_SymbolsInFirstAppearanceOrder ==
    fn_pc # "start" => fn_enc.symbols = FirstAppearance(fn_in)

\* C23: the symbols header returned by mft_encode(L), which is also the initial
\* front-list of encoder and decoder, lists the distinct bytes of L in
\* ascending byte order: the first index emitted is the number of distinct
\* bytes of L below L[0].
C23_SymbolsInAscendingOrder ==
    fn_pc # "start" =>
        LET symbols == fn_enc.symbols
        IN  /\ Range(symbols) = Range(fn_in)
            /\ \A i \in 1..(Len(symbols) - 1) : symbols[i] < symbols[i + 1]
            /\ fn_in # <<>> =>
                   fn_enc.encoded[1] = Cardinality({b \in Range(fn_in) : b < fn_in[1]})

\* an input whose bytes first appear in descending order
C23_Witness ==
    /\ fn_pc = "encoded"
    /\ fn_in = <<255, 98, 255, 97>>
    /\ fn_enc.symbols = <<97, 98, 255>>
    /\ fn_enc.encoded = <<2, 2, 1, 2>>

----------------------------------------------------------------------------
(* The suffix array of sbwt_encode *)

\* byte p (0-based) of the rotation of data that starts at position r (0-based)
RotationByte(data, r, p) == data[((r + p) % Len(data)) + 1]

\* the rotation starting at a is not greater than the one starting at b, byte by
\* byte under custom_order
RotationLeq(data, custom_order, a, b) ==
    LET n == Len(data)
        differ == {p \in 0..(n - 1) : RotationByte(data, a, p) # RotationByte(data, b, p)}
    IN  \/ differ = {}
        \/ LET p == CHOOSE q \in differ : \A u \in differ : q <= u
           IN  custom_order[RotationByte(data, a, p)] < custom_order[RotationByte(data, b, p)]

\* C24: for the terminated block data of length n and the keyed alphabet order
\* of sbwt_encode, the array sa computed by build_suffix_array is a permutation
\* of 0..n-1 that lists the n rotations of data in non-decreasing order under
\* the keyed alphabet order.
C24_SuffixArraySortsRotations ==
    fn_pc # "start" =>
        LET data == Terminated(fn_in)
            custom_order == generate_order_from_key(data, fn_key)
            sa == build_suffix_array(custom_order, data)
            n == Len(data)
        IN  /\ Len(sa) = n
            /\ Range(sa) = 0..(n - 1)
            /\ \A j \in 1..(n - 1) : RotationLeq(data, custom_order, sa[j], sa[j + 1])

\* the part of C24 that holds on every block: sa is a permutation of 0..n-1
SuffixArrayIsPermutation ==
    fn_pc # "start" =>
        LET data == Terminated(fn_in)
            sa == build_suffix_array(generate_order_from_key(data, fn_key), data)
        IN  Len(sa) = Len(data) /\ Range(sa) = 0..(Len(data) - 1)

\* the blocks on which C24 holds: those whose only 0xFF is the terminator
SuffixArraySortsRotationsOfPlainBlocks ==
    (fn_pc # "start" /\ \A i \in 1..(Len(fn_in) - 1) : fn_in[i] # EOF) =>
        LET data == Terminated(fn_in)
            custom_order == generate_order_from_key(data, fn_key)
            sa == build_suffix_array(custom_order, data)
        IN  \A j \in 1..(Len(data) - 1) : RotationLeq(data, custom_order, sa[j], sa[j + 1])

----------------------------------------------------------------------------
(* The alphabet order on both sides of the SBWT *)

\* the number of times data holds the byte b
CountOf(data, b) == Cardinality({i \in 1..Len(data) : data[i] = b})

\* C25: the last column L emitted by sbwt_encode is a permutation of the
\* terminated block, so its set of distinct bytes is that of the terminated
\* block and the keyed alphabet order that sbwt_decode computes from L and the
\* sub-key is the one sbwt_encode used.
C25_SameOrderOnDecode ==
    fn_pc # "start" =>
        LET data == Terminated(fn_in)
            L == fn_enc.last_column
        IN  /\ Len(L) = Len(data)
            /\ \A b \in 0..255 : CountOf(L, b) = CountOf(data, b)
            /\ Range(L) = Range(data)
            /\ generate_order_from_key(L, fn_key) = generate_order_from_key(data, fn_key)

\* a block of three distinct bytes whose last column holds them in another order
C25_Witness ==
    /\ fn_pc = "encoded"
    /\ fn_in = <<98, 97>>
    /\ Cardinality(Range(fn_enc.last_column)) = 3
    /\ fn_enc.last_column # Terminated(fn_in)
    /\ fn_enc.last_column[1] # 98

----------------------------------------------------------------------------
(* The writer of compress_file *)

\* every block of compress_file has its result in compressed_blocks
AllResultsCollected ==
    /\ c_futures = {}
    /\ \A idx \in 0..(Len(c_blocks) - 1) : Get(compressed_blocks, idx) # <<>>

\* a step that touches the output file of compress_file: it opens the file empty,
\* or appends the frame whose block_number is the number of frames written
WriterStep ==
    /\ AllResultsCollected
    /\ IF ~bin_file.exists
       THEN bin_file' = [exists |-> TRUE, frames |-> <<>>]
       ELSE /\ bin_file'.exists
            /\ Len(bin_file'.frames) = Len(bin_file.frames) + 1
            /\ SubSeq(bin_file'.frames, 1, Len(bin_file.frames)) = bin_file.frames
            /\ unpackb(bin_file'.frames[Len(bin_file'.frames)]).metadata.block_number
                   = Len(bin_file.frames)
            /\ Len(bin_file'.frames) <= Len(c_blocks)

\* C26: in compress_file no frame is written before the result of every block
\* has been collected; the writer then emits one frame per block, in strictly
\* ascending block_number 0, 1, ..., N-1, and has emitted N frames when
\* compress_file returns.
C26_FramesAfterCollectionInOrder ==
    /\ [][bin_file' # bin_file => WriterStep]_vars
    /\ [](c_pc = "done" =>
            /\ Len(bin_file.frames) = NumBlocks(in_file)
            /\ \A i \in 1..Len(bin_file.frames) :
                   unpackb(bin_file.frames[i]).metadata.block_number = i - 1)

\* two frames of a file of at least three blocks are written, and the result of
\* block 0 was not the first to be collected
C26_Witness ==
    /\ c_pc = "write"
    /\ Len(c_blocks) >= 3
    /\ Len(bin_file.frames) = 2
    /\ unpackb(bin_file.frames[2]).metadata.block_number = 1
    /\ compressed_blocks[1][1] # 0

----------------------------------------------------------------------------
(* The extension of the output file of decompress_file *)

\* the container holds the frames compress_file wrote, each once, in some order
ContainerAsWritten ==
    /\ d_pc \in {"collect", "done", "failed"}
    /\ Len(container) = Len(bin_file.frames)
    /\ \E p \in Perms(1..Len(container)) :
           \A i \in 1..Len(container) : container[i] = bin_file.frames[p[i]]

\* C27: every frame of a container written by compress_file carries the
\* extension compress_file was given, so the extension decompress_file holds
\* after any block result it has collected, and the one it appends to the
\* output path, is that extension for every order in which the workers
\* complete.
C27_OneExtension ==
    ContainerAsWritten =>
        /\ \A i \in 1..Len(container) :
               /\ "extension" \in DOMAIN unpackb(container[i]).metadata
               /\ unpackb(container[i]).metadata.extension = InputExtension
        /\ d_extension \in {<<>>, <<<<InputExtension>>>>}
        /\ decompressed_blocks # <<>> => d_extension = <<<<InputExtension>>>>
        /\ d_pc = "done" => out_file.exists /\ out_file.extension = InputExtension

\* a shuffled container of at least three frames is decompressed, and the last
\* result collected was not that of the last block
C27_Witness ==
    /\ d_pc = "done"
    /\ ContainerAsWritten
    /\ Len(container) >= 3
    /\ container # bin_file.frames
    /\ Keys_(decompressed_blocks)[Len(decompressed_blocks)] # Len(container) - 1
    /\ out_file.extension = InputExtension

----------------------------------------------------------------------------
(* The block numbers of the container of decompress_file *)

\* the block_number values of the parsed frames
BlockNumbers == [i \in 1..Len(container) |-> unpackb(container[i]).metadata.block_number]

\* the block numbers of the N frames are 0, ..., N-1, each once
ExactBlockNumbers ==
    /\ Range(BlockNumbers) = 0..(Len(container) - 1)
    /\ \A i, j \in 1..Len(container) : BlockNumbers[i] = BlockNumbers[j] => i = j

\* C28: decompress_file writes an output file only if the block_number values
\* of the N parsed frames are exactly 0, ..., N-1, each once; on a container
\* with a duplicated, missing or out-of-range block number it ends by raising
\* and has written nothing.
C28_WritesOnlyExactBlockNumbers ==
    /\ out_file.exists => ExactBlockNumbers
    /\ (d_pc \in {"done", "failed"} /\ ~ExactBlockNumbers) =>
           /\ d_pc = "failed"
           /\ d_error # NoError
           /\ ~out_file.exists

\* every worker succeeded on a container that holds block 0 twice, and
\* decompress_file raised after the pool without writing
C28_Witness ==
    /\ d_pc = "failed"
    /\ d_error = IncompleteError
    /\ Len(container) >= 3
    /\ BlockNumbers[1] = BlockNumbers[Len(container)]
    /\ d_futures = {}
    /\ Len(decompressed_blocks) = Len(container) - 1
    /\ ~out_file.exists

----------------------------------------------------------------------------
(* The zero-length file *)

\* C29: for a zero-length input file compress_file submits no block and writes
\* a container with zero frames, and decompress_file on a container with zero
\* frames raises an error without opening an output file.
C29_EmptyFile ==
    /\ (in_file = <<>> /\ c_pc \notin {"off", "idle"}) =>
           /\ c_blocks = <<>> /\ c_futures = {} /\ compressed_blocks = <<>>
           /\ c_pc # "failed"
           /\ c_pc = "done" => bin_file = [exists |-> TRUE, frames |-> <<>>]
    /\ (container = <<>> /\ d_pc \notin {"off", "idle"}) =>
           /\ d_blocks = <<>> /\ d_futures = {}
           /\ ~out_file.exists
           /\ d_pc # "done"
           /\ d_pc = "failed" => d_error # NoError

\* decompress_file has raised on the zero-frame container that compress_file
\* wrote for a zero-length file
C29_Witness ==
    /\ in_file = <<>>
    /\ c_pc = "done"
    /\ bin_file = [exists |-> TRUE, frames |-> <<>>]
    /\ container = <<>>
    /\ d_pc = "failed"
    /\ d_error = UnboundError
    /\ ~out_file.exists

----------------------------------------------------------------------------
(* The output files and failing blocks *)

\* every block of decompress_file has been collected with a result
AllBlocksDecompressed ==
    /\ d_futures = {}
    /\ \A p \in 1..Len(d_blocks) :
           /\ ~DecompressWorkerFailed(d_blocks[p])
           /\ Get(decompressed_blocks, d_blocks[p].block_number) # <<>>

\* every block of compress_file has been collected with a result
AllBlocksCompressed ==
    /\ c_futures = {}
    /\ \A i \in 1..Len(c_blocks) :
           /\ ~CompressWorkerFailed(c_blocks[i])
           /\ Get(compressed_blocks, c_blocks[i].block_number) # <<>>

\* C30: in compress_file and decompress_file the output file is opened, and
\* written, only when the result of every block has been collected
\* successfully; when the operation has raised, on a failing block or
\* otherwise, the output file is as it was before the call.
C30_OutputOnlyAfterAllBlocks ==
    /\ [][(bin_file' # bin_file => AllBlocksCompressed)
            /\ (out_file' # out_file => AllBlocksDecompressed)]_vars
    /\ [](c_pc = "failed" =>
            c_error # NoError /\ bin_file = [exists |-> FALSE, frames |-> <<>>])
    /\ [](d_pc = "failed" =>
            d_error # NoError
                /\ out_file = [exists |-> FALSE, extension |-> "", chunks |-> <<>>])
    /\ []((\E i \in 1..Len(c_blocks) : CompressWorkerFailed(c_blocks[i])) => ~bin_file.exists)
    /\ []((\E p \in 1..Len(d_blocks) : DecompressWorkerFailed(d_blocks[p])) => ~out_file.exists)

\* decompress_file has raised on a failing block after it had collected the
\* results of two other blocks, and there is no output file
C30_Witness ==
    /\ d_pc = "failed"
    /\ d_error.kind = "block"
    /\ Len(decompressed_blocks) >= 2
    /\ \E p \in d_futures : DecompressWorkerFailed(d_blocks[p])
    /\ ~out_file.exists

====
